---- MODULE Spec2Model ----
(***************************************************************************)
(* PosterBot: the pipeline orchestrator (src/core/pipeline.py) and the     *)
(* distributor with its TikTok upload protocol (src/core/distributor.py). *)
(* The stage adapters are collaborators of the orchestrator: each call is  *)
(* a step whose outcome (a value, an empty value, an exception) is an      *)
(* input; the file-system effects of the stages are modelled from their    *)
(* sources.  Strings are sequences of one-character strings.               *)
(***************************************************************************)
EXTENDS Integers, Sequences, FiniteSets, TLC

\* ---------------------------------------------------------------- bounds
MaxCount == 2          \* largest --count / iterations explored
MaxSentences == 2      \* largest number of sentences in a script
MaxTemplates == 2      \* longest list of shot templates handed to generate_prompts
MaxPromptCount == 3    \* largest count asked of a handed list of templates
MaxImages == 2         \* a strategy finds up to MaxImages + 1 images
MaxBudget == 3         \* largest small poll budget explored beside the default
MaxBatches == 2        \* Pipeline.run invocations in the re-run specification
MaxIndex == 1000        \* largest run index in the naming specification
MaxSize == 2           \* largest video file size, in bytes
MaxOver == 2           \* how far the longest metadata text exceeds the caption limit

\* ------------------------------------------------------ program constants
MaxNameLen == 50       \* safe_name[:50]
PadWidth == 3          \* {iteration_num:03d}
max_retries == 20      \* _check_tiktok_status(max_retries=20)
MaxCaption == 2200     \* caption[:2200]

\* ------------------------------------------------------------- strings
Digits == <<"0", "1", "2", "3", "4", "5", "6", "7", "8", "9">>

AlnumChars == {"a", "b", "x", "U", "n", "k", "o", "w"} \cup {Digits[k] : k \in 1..Len(Digits)}

Min(a, b) == IF a < b THEN a ELSE b

RECURSIVE ToDigits(_)
\* str(n) for n >= 0
ToDigits(n) == IF n < 10 THEN <<Digits[n + 1]>>
               ELSE ToDigits(n \div 10) \o <<Digits[(n % 10) + 1]>>

RECURSIVE Zeros(_)
Zeros(k) == IF k <= 0 THEN <<>> ELSE <<"0">> \o Zeros(k - 1)

\* the index written without padding
ZeroPadNone(n) == ToDigits(n)

\* the index is cut to its first three digits
ZeroPadTruncated(n) == SubSeq(Zeros(PadWidth - Len(ToDigits(n))) \o ToDigits(n), 1, PadWidth)

\* f"{n:03d}": left-pad with zeros to width 3, never truncate
ZeroPad(n) == Zeros(PadWidth - Len(ToDigits(n))) \o ToDigits(n)

\* every character is kept
SafeCharKeepsAll(c) == c

\* c if c.isalnum() or c in (' ', '-', '_') else '_'
SafeChar(c) == IF c \in AlnumChars \/ c \in {" ", "-", "_"} THEN c ELSE "_"

\* safe_name = "".join(...)[:50]
SafeName(s) == SubSeq([k \in 1..Len(s) |-> SafeChar(s[k])], 1, Min(MaxNameLen, Len(s)))

\* output_name = f"{iteration_num:03d}_{safe_name}"
OutputName(n, s) == ZeroPad(n) \o <<"_">> \o SafeName(s)

\* os.path.join(Config.VIDEOS_DIR, f"{output_name}.mp4")
OutputPath(name) == <<"output/videos/">> \o name \o <<".mp4">>

\* ------------------------------------------------------------- inputs
LongSubject == [k \in 1..(MaxNameLen + 2) |-> IF k > MaxNameLen THEN "/" ELSE "x"]

Unknown == <<"U", "n", "k", "n", "o", "w", "n">>

\* the "subject" values an idea can carry; NoKey is an idea without the key
NoKey == <<"<missing>">>
Subjects == {<<"a", "b">>, <<"a", "/", " ", "7">>, LongSubject, <<>>, NoKey}

Platforms == {"email", "tiktok", "instagram", "youtube", "none", "myspace"}

\* choices=["email", "tiktok", "instagram", "youtube", "none"]
ArgPlatforms == {"email", "tiktok", "instagram", "youtube", "none"}

\* --config: not given, a loadable name, a name without a file, a file that
\* does not load
ArgConfigs == {"<none>", "cars", "missing", "broken"}

\* --topic
ArgTopics == {"cars", "aliens"}

\* the command lines main.py accepts
ArgsInputs == [config : ArgConfigs, count : 0..MaxCount, topic : ArgTopics,
               distribute_to : ArgPlatforms, no_distribute : BOOLEAN]

\* Pipeline.run entered by a caller other than main.py
NoArgs == [config |-> "<none>", count |-> 0, topic |-> "cars",
           distribute_to |-> "email", no_distribute |-> FALSE]

Counts == 0..MaxCount

TokenPairs == {<<0, 0>>, <<1, 0>>, <<0, 1>>, <<1, 1>>}

Budgets == (1..MaxBudget) \cup {max_retries}

VARIABLES
  args,            \* the parsed command line of main.py
  exit_code,       \* exit status of the process, "running" until it exits
  iterations,      \* Pipeline.run(iterations=...)
  distribute_to,   \* Pipeline.run(distribute_to=...)
  image_source,    \* MediaCollector.image_source
  config_ok,       \* whether Config.validate() finds every required value
  batch,           \* number of the current Pipeline.run invocation
  pc,              \* position of the single thread of control
  i,               \* i+1 of the loop in Pipeline.run (0 before the first run)
  created_videos,  \* the list Pipeline.run builds and returns
  started,         \* run indexes whose ITERATION banner was logged
  trace,           \* stage calls made in the current run, in order
  log,             \* logger entries of the current run
  runLog,          \* one record per finished run of the current batch
  summary,         \* the "Pipeline complete: n/m" entry, <<>> until logged
  returned,        \* the list each finished Pipeline.run invocation returned
  subject,         \* idea.get("subject", "Unknown") of the current run
  durations,       \* durations returned by generate_audio
  sentences,       \* sentences returned by generate_audio
  image_paths,     \* list returned by collect_media
  clips,           \* (image, duration) pairs create_video composed
  video_path,      \* path returned by create_video, <<>> if none
  metadata,        \* the metadata dict handed to distribute, <<>> before
  audioDir,        \* files in Config.AUDIO_DIR, each named by the run that wrote it
  imagesDir,       \* files in Config.IMAGES_DIR, each named by the run that wrote it
  combined,        \* writer of output/combined_output.wav, <<>> if absent
  videosDir,       \* files in Config.VIDEOS_DIR: <<name, writer>> pairs
  memTok,          \* <<Config.TIKTOK_ACCESS_TOKEN, Config.TIKTOK_REFRESH_TOKEN>>
  envTok,          \* the same two keys as persisted in .env
  tokGen,          \* last token generation issued by the token endpoint
  req,             \* requests of the current publish invocation
  pub,             \* progress and result of the current publish invocation
  budget,          \* max_retries of _check_tiktok_status
  prompt_call,     \* arguments of a call of AIPromptGenerator.generate_prompts
  prompts          \* the list that call returned, <<>> before

vars == <<args, exit_code, iterations, distribute_to, image_source, config_ok, batch, pc, i, created_videos,
          started, trace, log, runLog, summary, returned, subject, durations, sentences,
          image_paths, clips, video_path, metadata, audioDir, imagesDir, combined,
          videosDir, memTok, envTok, tokGen, req, pub, budget, prompt_call, prompts>>

mainVars == <<args, exit_code>>
promptVars == <<prompt_call, prompts>>
inputVars == <<iterations, distribute_to, image_source, config_ok, budget>>
runVars == <<subject, durations, sentences, image_paths, clips, video_path, metadata>>
fileVars == <<audioDir, imagesDir, combined, videosDir>>
tokVars == <<memTok, envTok, tokGen>>
pubVars == <<req, pub>>

\* a run is identified across batches by <<batch, index>>
ThisRun == <<batch, i>>

\* req: mail = delivery attempts; init, refresh = the token each request carried;
\* initResp, refreshResp = the answers; upload, poll = requests made;
\* nonTerminal = status answers that were neither complete nor failed;
\* title = post_info.title of the Init payload; video_size, chunk_size,
\* total_chunk_count = its source_info; uploadResp = how the upload ended;
\* range = the Content-Range of the upload; sent = bytes of its body;
\* pollTok = the token the last status request carried; pollFailed = the last
\* status request raised or was answered without "data"; tried = the image
\* strategies the last collect_media called, in order, each with how it ended,
\* kept until the publisher is called
NoReq == [mail |-> 0, init |-> <<>>, initResp |-> <<>>, refresh |-> <<>>,
          refreshResp |-> <<>>, upload |-> 0, poll |-> 0, nonTerminal |-> 0,
          title |-> <<>>, video_size |-> 0, chunk_size |-> 0, total_chunk_count |-> 0,
          uploadResp |-> "none", range |-> <<>>, sent |-> 0, pollTok |-> 0,
          pollFailed |-> FALSE, tried |-> <<>>]
\* pub: result = what distribute did ("ok", "fail", "raised"); poll = how the
\* status loop ended; status, fail_reason = the answer that ended it; reason =
\* the reason printed; caption = the caption _post_to_tiktok built; file_size =
\* the bytes of the video file _post_to_tiktok found
NoPub == [called |-> FALSE, result |-> "none", poll |-> "none", status |-> "none",
          fail_reason |-> "none", reason |-> "none", caption |-> <<>>, file_size |-> 0]

\* no call of generate_prompts is observed
NoCall == [subject_name |-> <<>>, count |-> 0, use_default |-> TRUE, shot_templates |-> <<>>]

\* IMAGE_SOURCE = os.getenv("IMAGE_SOURCE", "pexels")
IMAGE_SOURCE == "pexels"

Entry(level, msg) == [level |-> level, msg |-> msg, run |-> i]

Init ==
  /\ args = NoArgs
  /\ exit_code = "running"
  /\ prompt_call = NoCall
  /\ prompts = <<>>
  /\ image_source = IMAGE_SOURCE
  /\ iterations \in Counts
  /\ distribute_to \in Platforms
  /\ config_ok \in BOOLEAN
  /\ budget = max_retries
  /\ batch = 1
  /\ pc = "start"
  /\ i = 0
  /\ created_videos = <<>>
  /\ started = <<>>
  /\ trace = <<>>
  /\ log = <<>>
  /\ runLog = <<>>
  /\ summary = <<>>
  /\ returned = <<>>
  /\ subject = <<>>
  /\ durations = <<>>
  /\ sentences = <<>>
  /\ image_paths = <<>>
  /\ clips = <<>>
  /\ video_path = <<>>
  /\ metadata = <<>>
  /\ audioDir = {}
  /\ imagesDir = {}
  /\ combined = <<>>
  /\ videosDir = {}
  /\ memTok \in TokenPairs
  /\ envTok = memTok
  /\ tokGen = 1
  /\ req = NoReq
  /\ pub = NoPub

\* ------------------------------------------------- Pipeline.run, the loop
\* the exception leaves Pipeline.run instead of being caught in the loop
OnExceptionEscapes(stage) ==
  /\ log' = Append(log, Entry("error", "Error in iteration"))
  /\ runLog' = Append(runLog, [index |-> i, outcome |-> "raised", stage |-> stage,
                               path |-> video_path, appended |-> FALSE])
  /\ pc' = "raised"
  /\ UNCHANGED created_videos

\* except Exception as e: logger.error(...); continue
OnException(stage) ==
  /\ log' = Append(log, Entry("error", "Error in iteration"))
  /\ runLog' = Append(runLog, [index |-> i, outcome |-> "raised", stage |-> stage,
                               path |-> video_path, appended |-> FALSE])
  /\ pc' = "loop"
  /\ UNCHANGED created_videos

\* logger.error("Failed to ..."); return None  -> video_path is falsy, no append
OnNone(stage, msg) ==
  /\ log' = Append(log, Entry("error", msg))
  /\ runLog' = Append(runLog, [index |-> i, outcome |-> "failed", stage |-> stage,
                               path |-> video_path, appended |-> FALSE])
  /\ pc' = "loop"
  /\ UNCHANGED created_videos

\* the path is returned only when the distribution succeeded
ReturnValueOnSuccessOnly(success) == IF success THEN video_path ELSE <<>>

\* what _run_single_iteration returns once distribute returned `success`
ReturnValue(success) == video_path

\* the path is appended twice
AppendedTwice(list, path) == IF path # <<>> THEN Append(Append(list, path), path) ELSE list

\* if video_path: created_videos.append(video_path)
Appended(list, path) == IF path # <<>> THEN Append(list, path) ELSE list

\* lines 217-222 of _run_single_iteration, then lines 115-116 of run
OnDistributed(success) ==
  /\ log' = Append(log, IF success THEN Entry("info", "Distribution successful")
                                   ELSE Entry("warning", "Distribution failed"))
  /\ created_videos' = Appended(created_videos, ReturnValue(success))
  /\ runLog' = Append(runLog, [index |-> i,
                               outcome |-> IF success THEN "published" ELSE "publish_failed",
                               stage |-> "none", path |-> video_path,
                               appended |-> created_videos' # created_videos])
  /\ pc' = "loop"

\* the missing values are not reported
ValidateNeverRaises == FALSE

\* if missing: raise ValueError("Missing required configuration: ...")
ValidateRaises == ~config_ok

\* Config.validate(); Config.create_directories(); created_videos = []
Run ==
  /\ pc = "start"
  /\ IF ValidateRaises
       THEN /\ pc' = "raised"
            /\ UNCHANGED created_videos
       ELSE /\ pc' = "loop"
            /\ created_videos' = <<>>
  /\ UNCHANGED <<mainVars, promptVars, inputVars, batch, i, started, trace, log, runLog, summary, returned,
                 runVars, fileVars, tokVars, pubVars>>

\* for i in range(iterations): the ITERATION banner, then _run_single_iteration
NextIteration ==
  /\ pc = "loop"
  /\ i < iterations
  /\ i' = i + 1
  /\ started' = Append(started, i + 1)
  /\ trace' = <<>>
  /\ log' = <<>>
  /\ pc' = "idea"
  /\ subject' = <<>>
  /\ durations' = <<>>
  /\ sentences' = <<>>
  /\ image_paths' = <<>>
  /\ clips' = <<>>
  /\ video_path' = <<>>
  /\ metadata' = <<>>
  /\ req' = NoReq
  /\ pub' = NoPub
  /\ UNCHANGED <<mainVars, promptVars, inputVars, batch, created_videos, runLog, summary, returned, fileVars,
                 tokVars>>

\* "Pipeline complete: {len(created_videos)}/{iterations} videos created"; return
Complete ==
  /\ pc = "loop"
  /\ i >= iterations
  /\ summary' = <<Len(created_videos), iterations>>
  /\ returned' = Append(returned, created_videos)
  /\ pc' = "done"
  /\ UNCHANGED <<mainVars, promptVars, inputVars, batch, i, created_videos, started, trace, log, runLog,
                 runVars, fileVars, tokVars, pubVars>>

\* ------------------------------------------------------------ the stages
\* Step 1: idea = generate_idea(...); if not idea: return None
GenerateIdea ==
  /\ pc = "idea"
  /\ trace' = Append(trace, "idea")
  /\ \/ \E s \in Subjects :
          /\ subject' = IF s = NoKey THEN Unknown ELSE s
          /\ pc' = "script"
          /\ UNCHANGED <<log, runLog, created_videos>>
     \/ OnNone("idea", "Failed to generate idea") /\ UNCHANGED subject
     \/ OnException("idea") /\ UNCHANGED subject
  /\ UNCHANGED <<mainVars, promptVars, inputVars, batch, i, started, summary, returned, durations, sentences,
                 image_paths, clips, video_path, metadata, fileVars, tokVars, pubVars>>

\* Step 2: script = write_script(...); if not script: return None
WriteScript ==
  /\ pc = "script"
  /\ trace' = Append(trace, "script")
  /\ \/ pc' = "audio" /\ UNCHANGED <<log, runLog, created_videos>>
     \/ OnNone("script", "Failed to write script")
     \/ OnException("script")
  /\ UNCHANGED <<mainVars, promptVars, inputVars, batch, i, started, summary, returned, runVars, fileVars, tokVars,
                 pubVars>>

\* sentence k of the script and the duration of its audio segment
Sentence(k) == <<"sentence", k>>
Duration(k) == 10 + k

RECURSIVE Kept(_, _)
\* the sentence numbers 1..n whose synthesis succeeded, in order
Kept(n, ok) == IF n = 0 THEN <<>>
               ELSE Kept(n - 1, ok) \o (IF n \in ok THEN <<n>> ELSE <<>>)

\* the combined audio is never written
CombinedNotWritten(old, ok) == old

\* if audio_segments: combined_audio.export(combined_path): the file of an
\* earlier run is replaced, and stays when no sentence was synthesized
CombinedWritten(old, ok) == IF ok # {} THEN ThisRun ELSE old

\* the check of the durations is missing
NoAudioNever(d) == FALSE

\* if not durations: return None
NoAudio(d) == d = <<>>

\* Step 3: durations, sentences = tts.generate_audio(script)
\* (text_to_speech.py: rmtree + makedirs, one request per sentence, a failed
\* sentence is skipped, combined_output.wav is written if any segment exists)
GenerateAudio ==
  /\ pc = "audio"
  /\ trace' = Append(trace, "audio")
  /\ \/ \E n \in 0..MaxSentences : \E ok \in SUBSET (1..n) :
          LET kept == Kept(n, ok)
              d == [k \in 1..Len(kept) |-> Duration(kept[k])]
          IN /\ sentences' = [k \in 1..n |-> Sentence(k)]
             /\ durations' = d
             /\ audioDir' = {ThisRun : k \in ok}
             /\ combined' = CombinedWritten(combined, ok)
             /\ IF NoAudio(d)
                  THEN OnNone("audio", "Failed to generate audio")
                  ELSE pc' = "media" /\ UNCHANGED <<log, runLog, created_videos>>
     \/ \* shutil.rmtree raises: nothing was touched
        /\ OnException("audio")
        /\ UNCHANGED <<sentences, durations, audioDir, combined>>
     \/ \* combined_audio.export raises: the segments are on disk
        /\ audioDir' = {ThisRun}
        /\ OnException("audio")
        /\ UNCHANGED <<sentences, durations, combined>>
  /\ UNCHANGED <<mainVars, promptVars, inputVars, batch, i, started, summary, returned, subject, image_paths, clips,
                 video_path, metadata, imagesDir, videosDir, tokVars, pubVars>>

\* ---------------------------------------------------- AIPromptGenerator
\* DEFAULT_BASE_STYLE
DEFAULT_BASE_STYLE == "professional photography, 8k uhd, dslr, high quality, photorealistic, cinematic lighting, sharp focus"

\* the ten legacy shot templates; a template is the sequence of its literal
\* parts and of its placeholders {subject} and {base_style}
DEFAULT_CAR_TEMPLATES == <<
  [name |-> "hero_front",
   template |-> <<"{subject}", ", front three-quarter view, studio lighting, clean background, ", "{base_style}">>,
   description |-> "Hero front 3/4 angle"],
  [name |-> "side_profile",
   template |-> <<"{subject}", ", side profile view, clean minimalist background, professional car photography, ", "{base_style}">>,
   description |-> "Side profile"],
  [name |-> "rear_angle",
   template |-> <<"{subject}", ", rear three-quarter view, dramatic lighting, showing taillights and rear design, ", "{base_style}">>,
   description |-> "Rear 3/4 angle"],
  [name |-> "detail_closeup",
   template |-> <<"{subject}", ", extreme close-up of headlight and front grille, macro photography, ", "{base_style}">>,
   description |-> "Close-up detail shot"],
  [name |-> "action_motion",
   template |-> <<"{subject}", ", driving on scenic road, motion blur background, speed and movement, ", "{base_style}">>,
   description |-> "Action shot in motion"],
  [name |-> "lifestyle_context",
   template |-> <<"{subject}", ", parked in urban city street at sunset, modern architecture background, lifestyle photography, ", "{base_style}">>,
   description |-> "Lifestyle context shot"],
  [name |-> "interior_cabin",
   template |-> <<"{subject}", " interior, dashboard and steering wheel view, driver's perspective, automotive interior photography, ", "{base_style}">>,
   description |-> "Interior cabin view"],
  [name |-> "aerial_top",
   template |-> <<"{subject}", ", aerial top-down view, drone photography, geometric composition, ", "{base_style}">>,
   description |-> "Aerial top-down view"],
  [name |-> "low_angle",
   template |-> <<"{subject}", ", low angle ground level shot, aggressive stance, dramatic sky background, ", "{base_style}">>,
   description |-> "Low angle ground shot"],
  [name |-> "night_scene",
   template |-> <<"{subject}", ", night scene with city lights, dramatic lighting, reflections on wet pavement, ", "{base_style}">>,
   description |-> "Night scene shot"]>>

\* a[:n] of Python: a negative n counts from the end
SliceTo(a, n) == IF n >= 0 THEN SubSeq(a, 1, Min(n, Len(a)))
                           ELSE SubSeq(a, 1, IF Len(a) + n > 0 THEN Len(a) + n ELSE 0)

RECURSIVE RStrip(_)
\* s without its trailing blanks
RStrip(s) == IF s # <<>> /\ s[Len(s)] = " " THEN RStrip(SubSeq(s, 1, Len(s) - 1)) ELSE s

\* the part of s after its first ")"
AfterParen(s) ==
  LET k == CHOOSE j \in 1..Len(s) : s[j] = ")" /\ \A h \in 1..(j - 1) : s[h] # ")"
  IN SubSeq(s, k + 1, Len(s))

RECURSIVE DropGroups(_, _)
\* re.sub(r'\s*\([^)]*\)', '', s): a parenthesized group goes with the blanks
\* before it; a "(" that is never closed stays
DropGroups(rest, acc) ==
  IF rest = <<>> THEN acc
  ELSE IF rest[1] = "(" /\ \E j \in 2..Len(rest) : rest[j] = ")"
         THEN DropGroups(AfterParen(rest), RStrip(acc))
         ELSE DropGroups(Tail(rest), Append(acc, rest[1]))

\* cleaned.replace(en dash, '-'); the en dash is the element "--"
Dashes(s) == [k \in 1..Len(s) |-> IF s[k] = "--" THEN "-" ELSE s[k]]

RECURSIVE Collapse(_, _)
\* ' '.join(s.split()): no leading or trailing blank, one blank between words
Collapse(rest, acc) ==
  IF rest = <<>> THEN RStrip(acc)
  ELSE IF rest[1] = " " /\ (acc = <<>> \/ acc[Len(acc)] = " ")
         THEN Collapse(Tail(rest), acc)
         ELSE Collapse(Tail(rest), Append(acc, rest[1]))

\* _clean_subject_name(subject_name)
clean_subject_name(subject_name) == Collapse(Dashes(DropGroups(subject_name, <<>>)), <<>>)

RECURSIVE Format(_, _, _)
\* template.format(subject=..., base_style=...): the result as the sequence
\* of its pieces, the characters of the subject among them
Format(template, subj, style) ==
  IF template = <<>> THEN <<>>
  ELSE (CASE template[1] = "{subject}" -> subj
          [] template[1] = "{base_style}" -> <<style>>
          [] OTHER -> <<template[1]>>) \o Format(Tail(template), subj, style)

\* every template is used, whatever count says
TemplatesToUseAll(shot_templates, count) == shot_templates

\* templates_to_use = shot_templates[:count]
TemplatesToUse(shot_templates, count) == SliceTo(shot_templates, count)

\* generate_prompts(subject_name, count, shot_templates), base_style=None;
\* use_default stands for shot_templates=None
generate_prompts(subject_name, count, use_default, shot_templates) ==
  LET templates == IF use_default THEN DEFAULT_CAR_TEMPLATES ELSE shot_templates
      clean_name == clean_subject_name(subject_name)
      templates_to_use == TemplatesToUse(templates, count)
  IN [k \in 1..Len(templates_to_use) |->
        [prompt |-> Format(templates_to_use[k].template, clean_name, DEFAULT_BASE_STYLE),
         description |-> templates_to_use[k].description,
         name |-> templates_to_use[k].name]]

\* prompts = AIPromptGenerator.generate_prompts(...)
GeneratePrompts ==
  /\ pc = "generate_prompts"
  /\ prompts' = generate_prompts(prompt_call.subject_name, prompt_call.count,
                                 prompt_call.use_default, prompt_call.shot_templates)
  /\ pc' = "prompts_returned"
  /\ UNCHANGED <<mainVars, prompt_call, inputVars, batch, i, created_videos, started, trace, log,
                 runLog, summary, returned, runVars, fileVars, tokVars, pubVars>>

\* ------------------------------------------------------ MediaCollector
\* a call with keyword arguments the callee does not declare raises TypeError
Accepts(params, passed) == passed \subseteq params

\* def collect_media(self, query, count=None, media_type="image", output_dir=None)
CollectMediaParams == {"query", "count", "media_type", "output_dir"}

\* collect_media(subject, count=len(durations), script=script, sentences=sentences)
CollectMediaPassed == {"query", "count", "script", "sentences"}

\* the values of IMAGE_SOURCE the code names, and one it does not know
ImageSources == {"flux-schnell", "flux-dev", "pexels", "duckduckgo", "other"}

\* len(DEFAULT_CAR_TEMPLATES)
DefaultTemplateCount == 10

\* what a strategy can deliver: error is an exception outside the
\* per-image try (model load, failed search request), a number is how many
\* images can be generated or downloaded and saved
StrategyOutcomes == {[error |-> TRUE, images |-> 0]}
                      \cup {[error |-> FALSE, images |-> n] : n \in 0..(MaxImages + 1)}

\* the outcome of a call that is not made
NoOutcome == [error |-> TRUE, images |-> 0]

\* the two ways a strategy ends
Raised == [raised |-> TRUE, count |-> 0]
Returned(n) == [raised |-> FALSE, count |-> n]

\* one image per prompt of generate_prompts(query, count), a failed image is
\* skipped; if not image_paths: raise RuntimeError; any exception is re-raised
collect_images_flux(out, count) ==
  IF out.error THEN Raised
  ELSE LET n == Min(out.images, Min(count, DefaultTemplateCount))
       IN IF n = 0 THEN Raised ELSE Returned(n)

\* the list is returned as it is, also when it is empty
collect_images_duckduckgo_unchecked(out, count) ==
  IF out.error THEN Raised ELSE Returned(Min(out.images, count))

\* the downloads stop at count images; if not image_paths: raise RuntimeError
collect_images_duckduckgo(out, count) ==
  IF out.error THEN Raised
  ELSE LET n == Min(out.images, count)
       IN IF n = 0 THEN Raised ELSE Returned(n)

\* without an API key the web search is used; the downloads stop at count
\* images; a failed search request raises; if not image_paths: raise RuntimeError
collect_images_pexels(key, out, ddg, count) ==
  IF ~key THEN collect_images_duckduckgo(ddg, count)
  ELSE IF out.error THEN Raised
  ELSE LET n == Min(out.images, count)
       IN IF n = 0 THEN Raised ELSE Returned(n)

\* one call of a strategy and how it ended
Call(strategy, result) == [strategy |-> strategy, raised |-> result.raised, count |-> result.count]

\* the fallback that gives up when Pexels raised
FallbackChainWithoutLast(key, flux, pexels, ddg, web, count) ==
  LET f == Call("flux", collect_images_flux(flux, count))
      p == Call("pexels", collect_images_pexels(key, pexels, ddg, count))
  IN IF ~f.raised THEN <<f>> ELSE <<f, p>>

\* unknown source: try FLUX; except Exception: try Pexels; except Exception:
\* DuckDuckGo, whose exception is not caught. web is what the search delivers
\* to this last call, ddg what it delivered to Pexels without an API key
FallbackChain(key, flux, pexels, ddg, web, count) ==
  LET f == Call("flux", collect_images_flux(flux, count))
      p == Call("pexels", collect_images_pexels(key, pexels, ddg, count))
      d == Call("duckduckgo", collect_images_duckduckgo(web, count))
  IN IF ~f.raised THEN <<f>> ELSE IF ~p.raised THEN <<f, p>> ELSE <<f, p, d>>

\* the values of image_source collect_media has a branch for
KnownSources == {"flux-schnell", "flux-dev", "pexels", "duckduckgo"}

\* the strategies collect_media calls: the one of image_source, or the
\* fallback chain for an unknown source
strategy_calls(source, key, flux, pexels, ddg, web, count) ==
  CASE source \in {"flux-schnell", "flux-dev"} ->
         <<Call("flux", collect_images_flux(flux, count))>>
    [] source = "pexels" -> <<Call("pexels", collect_images_pexels(key, pexels, ddg, count))>>
    [] source = "duckduckgo" -> <<Call("duckduckgo", collect_images_duckduckgo(ddg, count))>>
    [] OTHER -> FallbackChain(key, flux, pexels, ddg, web, count)

\* return of the strategy that was called last, or its exception
Ended(calls) == [raised |-> calls[Len(calls)].raised, count |-> calls[Len(calls)].count]

\* collect_media ends as the last strategy it called ended
collect_media(source, key, flux, pexels, ddg, web, count) ==
  Ended(strategy_calls(source, key, flux, pexels, ddg, web, count))

\* whether PEXELS_API_KEY is set, and what FLUX, Pexels, the search Pexels
\* falls back to and the search of the DuckDuckGo strategy deliver
MediaInputs(source) ==
  BOOLEAN \X StrategyOutcomes \X StrategyOutcomes \X StrategyOutcomes
          \X (IF source \in KnownSources THEN {NoOutcome} ELSE StrategyOutcomes)

\* the ways one call of collect_media can go: the strategies it calls and
\* how it ends
MediaRuns(source, count) ==
  {[calls |-> strategy_calls(source, in[1], in[2], in[3], in[4], in[5], count),
    result |-> collect_media(source, in[1], in[2], in[3], in[4], in[5], count)] :
     in \in MediaInputs(source)}

\* if not image_paths: return None
NoImages(p) == p = <<>>

\* Step 4: image_paths = media_collector.collect_media(subject, count=len(durations), ...)
\* (media_collector.py: rmtree + makedirs of the images directory, then the strategy)
CollectMedia ==
  /\ pc = "media"
  /\ trace' = Append(trace, "media")
  /\ \/ \E run \in MediaRuns(image_source, Len(durations)) :
          LET r == run.result
          IN /\ req' = [req EXCEPT !.tried = run.calls]
             /\ IF r.raised
               THEN \* the strategy raises after the directory was reset
                    /\ imagesDir' = {}
                    /\ OnException("media")
                    /\ UNCHANGED image_paths
               ELSE /\ imagesDir' = {ThisRun : k \in 1..r.count}
                    /\ image_paths' = [k \in 1..r.count |-> <<ThisRun, k>>]
                    /\ IF NoImages(image_paths')
                         THEN OnNone("media", "Failed to collect images")
                         ELSE pc' = "video" /\ UNCHANGED <<log, runLog, created_videos>>
     \/ \* the call itself is rejected: nothing was touched
        /\ ~Accepts(CollectMediaParams, CollectMediaPassed)
        /\ OnException("media")
        /\ UNCHANGED <<imagesDir, image_paths, req>>
  /\ UNCHANGED <<mainVars, promptVars, inputVars, batch, i, started, summary, returned, subject, durations, sentences,
                 clips, video_path, metadata, audioDir, combined, videosDir, tokVars, pub>>

\* s[:n]
Prefix(s, n) == SubSeq(s, 1, Min(n, Len(s)))

\* zip(a, b): pairs up to the shorter of the two
Zip(a, b) == [k \in 1..Min(Len(a), Len(b)) |-> <<a[k], b[k]>>]

\* images = image_paths[:len(durations)]; if the lengths differ,
\* images = images[:min_len]
TrimmedImages(imgs, durs) ==
  LET images == Prefix(imgs, Len(durs))
  IN IF Len(images) # Len(durs) THEN Prefix(images, Min(Len(images), Len(durs)))
                                ELSE images

\* the durations are used as they were handed over
DurationsUntrimmed(imgs, durs) == durs

\* if the lengths differ, durations = durations[:min_len]
TrimmedDurations(imgs, durs) ==
  LET images == Prefix(imgs, Len(durs))
  IN IF Len(images) # Len(durs) THEN Prefix(durs, Min(Len(images), Len(durs)))
                                ELSE durs

\* for img_path, duration in zip(images, durations): one clip per pair
Clips(imgs, durs) == Zip(TrimmedImages(imgs, durs), TrimmedDurations(imgs, durs))

\* the file create_video writes replaces any file of the same name
Written(dir, name, writer) == {f \in dir : f[1] # name} \cup {<<name, writer>>}

\* if not video_path: return None
NoVideo(p) == p = <<>>

\* Step 5: output_name, then video_path = video_composer.create_video(...)
CreateVideo ==
  /\ pc = "video"
  /\ trace' = Append(trace, "video")
  /\ LET output_name == OutputName(i, subject)
     IN \/ /\ clips' = Clips(image_paths, durations)
           /\ videosDir' = Written(videosDir, output_name, ThisRun)
           /\ video_path' = OutputPath(output_name)
           /\ pc' = "cleanup"
           /\ UNCHANGED <<log, runLog, created_videos>>
        \/ \* the adapter returns nothing
           /\ video_path' = <<>>
           /\ IF NoVideo(video_path')
                THEN OnNone("video", "Failed to create video")
                ELSE pc' = "cleanup" /\ UNCHANGED <<log, runLog, created_videos>>
           /\ UNCHANGED <<clips, videosDir>>
        \/ \* ImageClip or write_videofile raises
           /\ OnException("video")
           /\ UNCHANGED <<clips, videosDir, video_path>>
  /\ UNCHANGED <<mainVars, promptVars, inputVars, batch, i, started, summary, returned, subject, durations, sentences,
                 image_paths, metadata, audioDir, imagesDir, combined, tokVars, pubVars>>

\* the files are left in place
RemovedNothing(dir) == dir

\* os.remove of every file of a directory, when no removal fails
Removed(dir) == {}

\* the cleanup empties the videos directory as well
VideosRemovedToo(dir) == {}

\* the cleanup lists Config.AUDIO_DIR and Config.IMAGES_DIR and removes the
\* combined audio: the files of Config.VIDEOS_DIR are not touched
VideosAfterCleanup(dir) == dir

\* logger.warning("Error cleaning up temp files: ...")
CleanupWarning == Entry("warning", "Error cleaning up temp files")

\* self._cleanup_temp_files(): audio files, then image files, then the combined
\* audio; the first os.remove that raises ends the whole cleanup with a warning
CleanupTempFiles ==
  /\ pc = "cleanup"
  /\ trace' = Append(trace, "cleanup")
  /\ \/ /\ audioDir' = Removed(audioDir)
        /\ imagesDir' = Removed(imagesDir)
        /\ combined' = <<>>
        /\ UNCHANGED log
     \/ \E left \in (SUBSET audioDir) \ {{}} :
          /\ audioDir' = left
          /\ UNCHANGED <<imagesDir, combined>>
          /\ log' = Append(log, CleanupWarning)
     \/ \E left \in (SUBSET imagesDir) \ {{}} :
          /\ audioDir' = Removed(audioDir)
          /\ imagesDir' = left
          /\ UNCHANGED combined
          /\ log' = Append(log, CleanupWarning)
     \/ /\ combined # <<>>
        /\ audioDir' = Removed(audioDir)
        /\ imagesDir' = Removed(imagesDir)
        /\ UNCHANGED combined
        /\ log' = Append(log, CleanupWarning)
  /\ videosDir' = VideosAfterCleanup(videosDir)
  /\ pc' = "distribute"
  /\ UNCHANGED <<mainVars, promptVars, inputVars, batch, i, started, created_videos, runLog, summary, returned,
                 runVars, tokVars, pubVars>>

\* ------------------------------------------------ Distributor, the caption
\* "Posted by PosterBot"
DefaultCaption == <<"P", "o", "s", "t", "e", "d", " ", "b", "y", " ", "P", "o", "s", "t", "e", "r", "B", "o", "t">>

\* the concept of the idea; its content plays no role in the orchestration
Concept == <<"c">>

\* metadata = {"subject": f"PosterBot Video: {concept}",
\*             "body": f"Video about: {subject}\n\nConcept: {concept}\n\nGenerated by PosterBot"}
Metadata(subj, concept) ==
  [subject |-> <<"P", "o", "s", "t", "e", "r", "B", "o", "t", " ", "V", "i", "d", "e", "o", ":", " ">> \o concept,
   body |-> <<"V", "i", "d", "e", "o", " ", "a", "b", "o", "u", "t", ":", " ">> \o subj
            \o <<"\n", "\n", "C", "o", "n", "c", "e", "p", "t", ":", " ">> \o concept
            \o <<"\n", "\n", "G", "e", "n", "e", "r", "a", "t", "e", "d", " ", "b", "y", " ", "P", "o", "s", "t", "e", "r", "B", "o", "t">>]

\* dict.get(key, default)
Get(m, key, default) == IF key \in DOMAIN m THEN m[key] ELSE default

\* title = metadata.get("title", metadata.get("subject", ""))
Title(m) == Get(m, "title", Get(m, "subject", <<>>))

\* description = metadata.get("description", metadata.get("body", ""))
Description(m) == Get(m, "description", Get(m, "body", <<>>))

\* f"{title}\n\n{description}" if title and description else (title or description)
Joined(t, d) == IF t # <<>> /\ d # <<>> THEN t \o <<"\n", "\n">> \o d
                ELSE IF t # <<>> THEN t ELSE d

\* an empty combination is sent as it is
CaptionNoDefault(t, d) == Prefix(Joined(t, d), MaxCaption)

\* caption = caption[:2200] if caption else "Posted by PosterBot"
Caption(t, d) == IF Joined(t, d) # <<>> THEN Prefix(Joined(t, d), MaxCaption)
                 ELSE DefaultCaption

\* ------------------------------------------------------------ Distributor
\* the file is taken to exist without looking
VideoExistsUnchecked == TRUE

\* os.path.exists(video_path)
VideoExists == \E f \in videosDir : OutputPath(f[1]) = video_path

\* the branch of Distributor.distribute a platform takes
Branch(platform) ==
  CASE platform = "none" -> "skip"
    [] platform = "email" -> "email"
    [] platform = "instagram" -> "raise"
    [] platform = "tiktok" -> "tiktok"
    [] platform = "youtube" -> "raise"
    [] OTHER -> "raise"

\* os.path.getsize(video_path)
Sizes == 1..MaxSize

\* Step 6: metadata = {...}; success = distributor.distribute(video_path,
\* platform, metadata) with _send_email, and _post_to_tiktok up to its check of
\* the video file
Distribute ==
  /\ pc = "distribute"
  /\ trace' = Append(trace, "publish")
  /\ LET b == Branch(distribute_to)
         called == [NoPub EXCEPT !.called = TRUE]
     IN \/ /\ b = "skip"
           /\ req' = NoReq
           /\ pub' = [called EXCEPT !.result = "ok"]
           /\ OnDistributed(TRUE)
        \/ /\ b = "email"
           /\ ~VideoExists
           /\ req' = NoReq
           /\ pub' = [called EXCEPT !.result = "fail"]
           /\ OnDistributed(FALSE)
        \/ /\ b = "email"
           /\ VideoExists
           /\ req' = [NoReq EXCEPT !.mail = 1]
           /\ \E sent \in BOOLEAN :
                /\ pub' = [called EXCEPT !.result = IF sent THEN "ok" ELSE "fail"]
                /\ OnDistributed(sent)
        \/ /\ b = "raise"
           /\ req' = NoReq
           /\ pub' = [called EXCEPT !.result = "raised"]
           /\ OnException("publish")
        \/ /\ b = "tiktok"
           /\ ~VideoExists
           /\ req' = NoReq
           /\ pub' = [called EXCEPT !.result = "fail"]
           /\ OnDistributed(FALSE)
        \/ /\ b = "tiktok"
           /\ VideoExists
           /\ req' = NoReq
           /\ \E size \in Sizes : pub' = [called EXCEPT !.file_size = size]
           /\ pc' = "tt_caption"
           /\ UNCHANGED <<log, runLog, created_videos>>
  /\ metadata' = Metadata(subject, Concept)
  /\ \* durations, sentences and image_paths are not read after create_video
     /\ durations' = <<>>
     /\ sentences' = <<>>
     /\ image_paths' = <<>>
     /\ clips' = <<>>
  /\ UNCHANGED <<mainVars, promptVars, inputVars, batch, i, started, summary, returned, subject, video_path,
                 fileVars, tokVars>>

\* _post_to_tiktok, lines 82-91: the metadata is read and the caption built
PostToTiktokCaption ==
  /\ pc = "tt_caption"
  /\ pub' = [pub EXCEPT !.caption = Caption(Title(metadata), Description(metadata))]
  /\ pc' = "tt_init"
  /\ UNCHANGED <<mainVars, promptVars, inputVars, batch, i, created_videos, started, trace, log, runLog, summary,
                 returned, runVars, fileVars, tokVars, req>>

\* ------------------------------------------- Distributor, TikTok protocol
InitResponses == {"401", "ok", "no_ids", "no_data", "http_error", "transport_error"}
UploadOutcomes == {"ok", "http_error", "transport_error", "unreadable"}
RefreshResponses == {"ok", "no_refresh_token", "no_access_token", "error"}
\* "no_status": "data" is there and has no "status"; "no_data": there is no
\* "data"; "error": the request raised or raise_for_status did
StatusResponses == {"PUBLISH_COMPLETE", "FAILED", "PROCESSING_UPLOAD",
                    "PROCESSING_DOWNLOAD", "no_status", "no_data", "error"}
FailReasons == {"file_format_check_failed", "<missing>"}

\* _post_to_tiktok returns False: distribute returns False to the orchestrator
PublishFails ==
  /\ pub' = [pub EXCEPT !.result = "fail"]
  /\ UNCHANGED trace
  /\ OnDistributed(FALSE)

\* any HTTP error status triggers the refresh
AfterFirstInitRefreshesOnAnyError(resp) ==
  CASE resp \in {"401", "http_error"} -> IF memTok[2] = 0 THEN "fail" ELSE "refresh"
    [] resp = "ok" -> "upload"
    [] OTHER -> "fail"

\* what the first Init response leads to (lines 200-219)
AfterFirstInit(resp) ==
  CASE resp = "401" -> IF memTok[2] = 0 THEN "fail" ELSE "refresh"
    [] resp = "ok" -> "upload"
    [] OTHER -> "fail"

\* the status of the second Init response is not checked
AfterSecondInitUnchecked(resp) ==
  CASE resp \in {"ok", "401"} -> "upload"
    [] OTHER -> "fail"

\* what the Init response after a refresh leads to (lines 205-219):
\* a 401 makes raise_for_status raise, which returns (None, None)
AfterSecondInit(resp) ==
  CASE resp = "ok" -> "upload"
    [] OTHER -> "fail"

\* os.path.getsize(video_path): the bytes of the file
getsize(file_size) == file_size

\* _init_tiktok_upload: the token check and the first Init request
InitTiktokUpload ==
  /\ pc = "tt_init"
  /\ IF memTok[1] = 0
       THEN /\ UNCHANGED req
            /\ PublishFails
       ELSE \E resp \in InitResponses :
                 LET to == AfterFirstInit(resp)
                     video_size == getsize(pub.file_size)
                 IN /\ req' = [req EXCEPT !.init = Append(@, memTok[1]),
                                          !.initResp = Append(@, resp),
                                          !.title = pub.caption,
                                          !.video_size = video_size,
                                          !.chunk_size = video_size,
                                          !.total_chunk_count = 1]
                    /\ IF to = "fail"
                         THEN PublishFails
                         ELSE /\ pc' = IF to = "refresh" THEN "tt_refresh" ELSE "tt_upload"
                              /\ UNCHANGED <<pub, trace, log, runLog, created_videos>>
  /\ UNCHANGED <<mainVars, promptVars, inputVars, batch, i, started, summary, returned, runVars, fileVars, tokVars>>

\* _refresh_tiktok_token: the request, then set_key twice, then Config in memory.
\* A response with an access token and no refresh token raises KeyError after the
\* first set_key; the except clause returns False.
RefreshTiktokToken ==
  /\ pc = "tt_refresh"
  /\ \E resp \in RefreshResponses :
       LET new == tokGen + 1
       IN /\ req' = [req EXCEPT !.refresh = Append(@, memTok[2]),
                                !.refreshResp = Append(@, resp)]
          /\ CASE resp = "ok" ->
                 /\ envTok' = <<new, new>>
                 /\ memTok' = <<new, new>>
                 /\ tokGen' = new
                 /\ pc' = "tt_retry"
                 /\ UNCHANGED <<pub, trace, log, runLog, created_videos>>
            [] resp = "no_refresh_token" ->
                 /\ envTok' = <<new, envTok[2]>>
                 /\ tokGen' = new
                 /\ UNCHANGED memTok
                 /\ PublishFails
            [] OTHER ->
                 /\ UNCHANGED <<envTok, memTok, tokGen>>
                 /\ PublishFails
  /\ UNCHANGED <<mainVars, promptVars, inputVars, batch, i, started, summary, returned, runVars, fileVars>>

\* the Init request repeated with Config.TIKTOK_ACCESS_TOKEN after the refresh
RetryInit ==
  /\ pc = "tt_retry"
  /\ \E resp \in InitResponses :
       /\ req' = [req EXCEPT !.init = Append(@, memTok[1]),
                             !.initResp = Append(@, resp)]
       /\ IF AfterSecondInit(resp) = "fail"
            THEN PublishFails
            ELSE /\ pc' = "tt_upload"
                 /\ UNCHANGED <<pub, trace, log, runLog, created_videos>>
  /\ UNCHANGED <<mainVars, promptVars, inputVars, batch, i, started, summary, returned, runVars, fileVars, tokVars>>

\* the range that ends one byte past the file
ContentRangeEndExclusive(video_size) == <<0, video_size, video_size>>

\* f"bytes 0-{video_size-1}/{video_size}"
ContentRange(video_size) == <<0, video_size - 1, video_size>>

\* the result of the upload is not looked at
AfterUploadIgnoresFailure(outcome) == "poll"

\* if not self._upload_video_to_tiktok(...): return False
AfterUpload(outcome) == IF outcome = "ok" THEN "poll" ELSE "fail"

\* _upload_video_to_tiktok: the file is read, then one PUT of the whole file;
\* an unreadable file ends it before the request
UploadVideoToTiktok ==
  /\ pc = "tt_upload"
  /\ \E outcome \in UploadOutcomes :
       \* video_data = f.read(); video_size = len(video_data)
       LET video_size == pub.file_size
       IN
       /\ req' = IF outcome = "unreadable"
                   THEN [req EXCEPT !.uploadResp = outcome]
                   ELSE [req EXCEPT !.upload = @ + 1,
                                    !.uploadResp = outcome,
                                    !.range = ContentRange(video_size),
                                    !.sent = video_size]
       /\ IF AfterUpload(outcome) = "poll"
            THEN /\ pc' = "tt_poll"
                 /\ UNCHANGED <<pub, trace, log, runLog, created_videos>>
            ELSE PublishFails
  /\ UNCHANGED <<mainVars, promptVars, inputVars, batch, i, started, summary, returned, runVars, fileVars, tokVars>>

\* one attempt too many
MoreAttemptsOffByOne(made) == made <= budget

\* for attempt in range(max_retries)
MoreAttempts(made) == made < budget

\* a status that is still processing counts as published
IsCompleteOrProcessing(status) == status \in {"PUBLISH_COMPLETE", "PROCESSING_UPLOAD"}

\* one status response: "stop" with a result, or "continue"
IsComplete(status) == status = "PUBLISH_COMPLETE"
IsFailed(status) == status = "FAILED"

\* result["data"].get("fail_reason", "Unknown error")
Reason(r) == IF r = "<missing>" THEN "Unknown error" ELSE r

\* the attempt raised (except Exception) or its answer has no "data"
PollFailed(status) == status \in {"no_data", "error"}

\* a failed attempt is followed by the next attempt
EndsPollingNever(status) == FALSE

\* both branches print the failure and return False
EndsPolling(status) == PollFailed(status)

\* the status requests carry the token the first Init request carried
StatusTokenOfInit == req.init[1]

\* access_token = Config.TIKTOK_ACCESS_TOKEN at the start of _check_tiktok_status
StatusToken == memTok[1]

\* _check_tiktok_status: one attempt of the loop, or its exhaustion
CheckTiktokStatus ==
  /\ pc = "tt_poll"
  /\ IF MoreAttempts(req.poll)
       THEN \E status \in StatusResponses : \E r \in FailReasons :
              /\ status = "FAILED" \/ r = "<missing>"
              /\ CASE EndsPolling(status) ->
                        /\ req' = [req EXCEPT !.poll = @ + 1, !.pollTok = StatusToken,
                                                 !.pollFailed = PollFailed(status)]
                        /\ pub' = [pub EXCEPT !.result = "fail", !.poll = status,
                                              !.status = "none"]
                        /\ UNCHANGED trace
                        /\ OnDistributed(FALSE)
                   [] IsComplete(status) ->
                        /\ req' = [req EXCEPT !.poll = @ + 1, !.pollTok = StatusToken,
                                                 !.pollFailed = PollFailed(status)]
                        /\ pub' = [pub EXCEPT !.result = "ok", !.poll = "complete",
                                              !.status = status]
                        /\ UNCHANGED trace
                        /\ OnDistributed(TRUE)
                   [] IsFailed(status) ->
                        /\ req' = [req EXCEPT !.poll = @ + 1, !.pollTok = StatusToken,
                                                 !.pollFailed = PollFailed(status)]
                        /\ pub' = [pub EXCEPT !.result = "fail", !.poll = "failed",
                                              !.status = status, !.fail_reason = r,
                                              !.reason = Reason(r)]
                        /\ UNCHANGED trace
                        /\ OnDistributed(FALSE)
                   [] OTHER ->
                        /\ req' = [req EXCEPT !.poll = @ + 1, !.nonTerminal = @ + 1,
                                                 !.pollTok = StatusToken,
                                                 !.pollFailed = PollFailed(status)]
                        /\ UNCHANGED <<pub, pc, trace, log, runLog, created_videos>>
       ELSE /\ pub' = [pub EXCEPT !.result = "fail", !.poll = "timeout"]
            /\ UNCHANGED <<req, trace>>
            /\ OnDistributed(FALSE)
  /\ UNCHANGED <<mainVars, promptVars, inputVars, batch, i, started, summary, returned, runVars, fileVars, tokVars>>

\* ------------------------------------------------------ specifications
Next ==
  \/ Run
  \/ NextIteration
  \/ Complete
  \/ GenerateIdea
  \/ WriteScript
  \/ GenerateAudio
  \/ CollectMedia
  \/ CreateVideo
  \/ CleanupTempFiles
  \/ Distribute
  \/ PostToTiktokCaption
  \/ InitTiktokUpload
  \/ RefreshTiktokToken
  \/ RetryInit
  \/ UploadVideoToTiktok
  \/ CheckTiktokStatus

Spec == Init /\ [][Next]_vars

\* Pipeline.run is called again on the same Pipeline object, with the same
\* arguments, after the previous call returned
Rerun ==
  /\ pc = "done"
  /\ batch < MaxBatches
  /\ batch' = batch + 1
  /\ pc' = "start"
  /\ i' = 0
  /\ started' = <<>>
  /\ trace' = <<>>
  /\ log' = <<>>
  /\ runLog' = <<>>
  /\ summary' = <<>>
  /\ req' = NoReq
  /\ pub' = NoPub
  /\ UNCHANGED <<mainVars, promptVars, inputVars, created_videos, returned, runVars, fileVars, tokVars>>

RerunInit == Init /\ iterations = 1 /\ config_ok

RerunNext == Next \/ Rerun

RerunSpec == RerunInit /\ [][RerunNext]_vars

\* _check_tiktok_status called with any attempt budget, in the state the first
\* run of a batch is in once its upload succeeded
PollInit ==
  LET name == OutputName(1, <<"a", "b">>)
  IN /\ args = NoArgs
     /\ exit_code = "running"
     /\ prompt_call = NoCall
     /\ prompts = <<>>
     /\ image_source = IMAGE_SOURCE
     /\ iterations = 1
     /\ distribute_to = "tiktok"
     /\ config_ok = TRUE
     /\ budget \in {0} \cup Budgets
     /\ batch = 1
     /\ pc = "tt_poll"
     /\ i = 1
     /\ created_videos = <<>>
     /\ started = <<1>>
     /\ trace = <<"idea", "script", "audio", "media", "video", "cleanup", "publish">>
     /\ log = <<>>
     /\ runLog = <<>>
     /\ summary = <<>>
     /\ returned = <<>>
     /\ subject = <<"a", "b">>
     /\ durations = <<>>
     /\ sentences = <<>>
     /\ image_paths = <<>>
     /\ clips = <<>>
     /\ video_path = OutputPath(name)
     /\ metadata = Metadata(<<"a", "b">>, Concept)
     /\ audioDir = {}
     /\ imagesDir = {}
     /\ combined = <<>>
     /\ videosDir = {<<name, <<1, 1>>>>}
     /\ memTok \in {<<1, 1>>, <<1, 0>>}
     /\ envTok = memTok
     /\ tokGen = 1
     /\ req = [NoReq EXCEPT !.init = <<1>>, !.initResp = <<"ok">>, !.upload = 1,
                            !.title = Caption(Title(metadata), Description(metadata)),
                            !.video_size = 1, !.chunk_size = 1, !.total_chunk_count = 1,
                            !.uploadResp = "ok", !.range = ContentRange(1), !.sent = 1]
     /\ pub = [NoPub EXCEPT !.called = TRUE, !.file_size = 1,
                            !.caption = Caption(Title(metadata), Description(metadata))]

PollNext == CheckTiktokStatus

PollSpec == PollInit /\ [][PollNext]_vars

\* _post_to_tiktok called with any metadata: texts of the lengths around the
\* caption limit under the keys the caption is read from
Filler == <<"x", "y", "z">>
Text(tag, n) == [k \in 1..n |-> IF k = 1 THEN tag ELSE Filler[(k % 3) + 1]]

MetadataKeys == {"title", "subject", "description", "body"}

LengthsOf(key) ==
  IF key \in {"title", "description"}
    THEN {0, 1, MaxCaption - 3, MaxCaption - 2, MaxCaption + MaxOver}
    ELSE {1, MaxCaption + MaxOver}

MetadataInputs ==
  UNION {{[key \in D |-> Text(key, len[key])] :
            len \in {l \in [D -> UNION {LengthsOf(key) : key \in MetadataKeys}] :
                       \A key \in D : l[key] \in LengthsOf(key)}} :
         D \in SUBSET MetadataKeys}

CaptionInit ==
  LET name == OutputName(1, <<"a", "b">>)
  IN /\ args = NoArgs
     /\ exit_code = "running"
     /\ prompt_call = NoCall
     /\ prompts = <<>>
     /\ image_source = IMAGE_SOURCE
     /\ iterations = 1
     /\ distribute_to = "tiktok"
     /\ config_ok = TRUE
     /\ budget = max_retries
     /\ batch = 1
     /\ pc = "tt_caption"
     /\ i = 1
     /\ created_videos = <<>>
     /\ started = <<1>>
     /\ trace = <<"idea", "script", "audio", "media", "video", "cleanup", "publish">>
     /\ log = <<>>
     /\ runLog = <<>>
     /\ summary = <<>>
     /\ returned = <<>>
     /\ subject = <<"a", "b">>
     /\ durations = <<>>
     /\ sentences = <<>>
     /\ image_paths = <<>>
     /\ clips = <<>>
     /\ video_path = OutputPath(name)
     /\ metadata \in MetadataInputs
     /\ audioDir = {}
     /\ imagesDir = {}
     /\ combined = <<>>
     /\ videosDir = {<<name, <<1, 1>>>>}
     /\ memTok = <<1, 1>>
     /\ envTok = memTok
     /\ tokGen = 1
     /\ req = NoReq
     /\ \E size \in Sizes : pub = [NoPub EXCEPT !.called = TRUE, !.file_size = size]

CaptionNext == PostToTiktokCaption \/ InitTiktokUpload

CaptionSpec == CaptionInit /\ [][CaptionNext]_vars

\* create_video called for run `i` of a batch of `i` runs whose earlier runs
\* all ended at the idea stage, for indexes of one to four digits and subjects
\* around the length limit
NameIndexes == {1, 9, 10, 99, 100, MaxIndex - 1, MaxIndex}

NameSubjects ==
  (Subjects \ {NoKey}) \cup
  {Unknown, <<"-", "_", ".", "!">>, [k \in 1..MaxNameLen |-> "7"],
   [k \in 1..(MaxNameLen + 1) |-> IF k % 2 = 1 THEN "." ELSE "a"]}

NameInit ==
  /\ i \in NameIndexes
  /\ args = NoArgs
  /\ exit_code = "running"
  /\ prompt_call = NoCall
  /\ prompts = <<>>
  /\ image_source = IMAGE_SOURCE
  /\ iterations = i
  /\ distribute_to = "none"
  /\ config_ok = TRUE
  /\ budget = max_retries
  /\ batch = 1
  /\ pc = "video"
  /\ created_videos = <<>>
  /\ started = [k \in 1..i |-> k]
  /\ trace = <<"idea", "script", "audio", "media">>
  /\ log = <<>>
  /\ runLog = [k \in 1..(i - 1) |-> [index |-> k, outcome |-> "failed", stage |-> "idea",
                                      path |-> <<>>, appended |-> FALSE]]
  /\ summary = <<>>
  /\ returned = <<>>
  /\ subject \in NameSubjects
  /\ durations = <<Duration(1)>>
  /\ sentences = <<Sentence(1)>>
  /\ image_paths = <<<<ThisRun, 1>>>>
  /\ clips = <<>>
  /\ video_path = <<>>
  /\ metadata = <<>>
  /\ audioDir = {ThisRun}
  /\ imagesDir = {ThisRun}
  /\ combined = ThisRun
  /\ videosDir = {}
  /\ memTok = <<1, 1>>
  /\ envTok = memTok
  /\ tokGen = 1
  /\ req = NoReq
  /\ pub = NoPub

NameNext == CreateVideo

NameSpec == NameInit /\ [][NameNext]_vars

\* create_video called in run i of a batch in which an earlier run j produced
\* a video; the subjects are equal or are made of the characters a name has
\* around the index
PairSubjects == {<<>>, <<"x">>, <<"0", "x">>, <<"_", "x">>, <<"0", "_", "x">>}

PairInit ==
  /\ i \in NameIndexes
  /\ args = NoArgs
  /\ exit_code = "running"
  /\ prompt_call = NoCall
  /\ prompts = <<>>
  /\ image_source = IMAGE_SOURCE
  /\ iterations = i
  /\ distribute_to = "none"
  /\ config_ok = TRUE
  /\ budget = max_retries
  /\ batch = 1
  /\ pc = "video"
  /\ started = [k \in 1..i |-> k]
  /\ trace = <<"idea", "script", "audio", "media">>
  /\ log = <<>>
  /\ \E j \in NameIndexes : \E earlier \in PairSubjects :
       /\ j < i
       /\ created_videos = <<OutputPath(OutputName(j, earlier))>>
       /\ videosDir = {<<OutputName(j, earlier), <<1, j>>>>}
       /\ runLog = [k \in 1..(i - 1) |->
                     IF k = j THEN [index |-> k, outcome |-> "published", stage |-> "none",
                                    path |-> created_videos[1], appended |-> TRUE]
                              ELSE [index |-> k, outcome |-> "failed", stage |-> "idea",
                                    path |-> <<>>, appended |-> FALSE]]
  /\ summary = <<>>
  /\ returned = <<>>
  /\ subject \in PairSubjects
  /\ durations = <<Duration(1)>>
  /\ sentences = <<Sentence(1)>>
  /\ image_paths = <<<<ThisRun, 1>>>>
  /\ clips = <<>>
  /\ video_path = <<>>
  /\ metadata = <<>>
  /\ audioDir = {ThisRun}
  /\ imagesDir = {ThisRun}
  /\ combined = ThisRun
  /\ memTok = <<1, 1>>
  /\ envTok = memTok
  /\ tokGen = 1
  /\ req = NoReq
  /\ pub = NoPub

PairNext == CreateVideo

PairSpec == PairInit /\ [][PairNext]_vars

\* Distributor.distribute called for the first run of a batch of one, for every
\* platform, with a video file that exists or not
MailInit ==
  /\ args = NoArgs
  /\ exit_code = "running"
  /\ prompt_call = NoCall
  /\ prompts = <<>>
  /\ image_source = IMAGE_SOURCE
  /\ iterations = 1
  /\ distribute_to \in Platforms
  /\ config_ok = TRUE
  /\ budget = max_retries
  /\ batch = 1
  /\ pc = "distribute"
  /\ i = 1
  /\ created_videos = <<>>
  /\ started = <<1>>
  /\ trace = <<"idea", "script", "audio", "media", "video", "cleanup">>
  /\ log = <<>>
  /\ runLog = <<>>
  /\ summary = <<>>
  /\ returned = <<>>
  /\ subject \in NameSubjects
  /\ durations = <<Duration(1)>>
  /\ sentences = <<Sentence(1)>>
  /\ image_paths = <<<<ThisRun, 1>>>>
  /\ clips = Clips(image_paths, durations)
  /\ video_path = OutputPath(OutputName(1, subject))
  /\ metadata = <<>>
  /\ audioDir = {}
  /\ imagesDir = {}
  /\ combined = <<>>
  /\ videosDir \in {{}, {<<OutputName(1, subject), ThisRun>>}}
  /\ memTok = <<1, 1>>
  /\ envTok = memTok
  /\ tokGen = 1
  /\ req = NoReq
  /\ pub = NoPub

MailNext == Distribute

MailSpec == MailInit /\ [][MailNext]_vars

\* ------------------------------------------------ collect_media alone
\* run 1 has its narration and calls collect_media; the images directory is
\* empty or holds a file an earlier process left
MediaInit ==
  /\ args = NoArgs
  /\ exit_code = "running"
  /\ prompt_call = NoCall
  /\ prompts = <<>>
  /\ image_source \in ImageSources
  /\ iterations \in Counts
  /\ distribute_to = "none"
  /\ config_ok = TRUE
  /\ budget = max_retries
  /\ batch = 1
  /\ pc = "media"
  /\ i = 1
  /\ created_videos = <<>>
  /\ started = <<1>>
  /\ trace = <<"idea", "script", "audio">>
  /\ log = <<>>
  /\ runLog = <<>>
  /\ summary = <<>>
  /\ returned = <<>>
  /\ subject \in NameSubjects
  /\ \E n \in 1..MaxSentences :
       /\ durations = [k \in 1..n |-> Duration(k)]
       /\ sentences = [k \in 1..n |-> Sentence(k)]
  /\ image_paths = <<>>
  /\ clips = <<>>
  /\ video_path = <<>>
  /\ metadata = <<>>
  /\ audioDir = {ThisRun}
  /\ imagesDir \in {{}, {<<0, 0>>}}
  /\ combined = ThisRun
  /\ videosDir = {}
  /\ memTok = <<1, 1>>
  /\ envTok = memTok
  /\ tokGen = 1
  /\ req = NoReq
  /\ pub = NoPub

MediaNext == CollectMedia

MediaSpec == MediaInit /\ [][MediaNext]_vars

\* --------------------------------------------- generate_prompts alone
PromptSubjects == {<<"a">>, <<"a", " ", "(", "b", ")">>, <<"(", "a">>,
                   <<" ", "a", "--", "b", " ", " ", "c">>}

\* shot templates a caller hands over: dicts with the keys name, template
\* and description
ShotTemplates == {[name |-> "night", template |-> <<"{subject}", " at night, ", "{base_style}">>,
                   description |-> "Night shot"],
                  [name |-> "detail", template |-> <<"close-up of ", "{subject}">>,
                   description |-> "Detail shot"]}

TemplateLists == UNION {[1..n -> ShotTemplates] : n \in 0..MaxTemplates}

\* counts below, at and above the number of templates, and -1
PromptCounts == (-1..MaxPromptCount) \cup {DefaultTemplateCount, DefaultTemplateCount + 1}

PromptCalls ==
  {[subject_name |-> s, count |-> c, use_default |-> FALSE, shot_templates |-> t] :
     s \in PromptSubjects, c \in PromptCounts, t \in TemplateLists}
  \cup {[subject_name |-> s, count |-> c, use_default |-> TRUE, shot_templates |-> <<>>] :
          s \in PromptSubjects, c \in PromptCounts}

PromptInit ==
  /\ args = NoArgs
  /\ exit_code = "running"
  /\ prompt_call \in PromptCalls
  /\ prompts = <<>>
  /\ image_source = "flux-schnell"
  /\ iterations = 1
  /\ distribute_to = "none"
  /\ config_ok = TRUE
  /\ budget = max_retries
  /\ batch = 1
  /\ pc = "generate_prompts"
  /\ i = 1
  /\ created_videos = <<>>
  /\ started = <<1>>
  /\ trace = <<>>
  /\ log = <<>>
  /\ runLog = <<>>
  /\ summary = <<>>
  /\ returned = <<>>
  /\ subject = <<>>
  /\ durations = <<>>
  /\ sentences = <<>>
  /\ image_paths = <<>>
  /\ clips = <<>>
  /\ video_path = <<>>
  /\ metadata = <<>>
  /\ audioDir = {}
  /\ imagesDir = {}
  /\ combined = <<>>
  /\ videosDir = {}
  /\ memTok = <<1, 1>>
  /\ envTok = memTok
  /\ tokGen = 1
  /\ req = NoReq
  /\ pub = NoPub

PromptNext == GeneratePrompts

PromptSpec == PromptInit /\ [][PromptNext]_vars

\* ------------------------------------------- a service that never answers
\* the steps that wait for an HTTP response
NetworkCalls == {"tt_init", "tt_refresh", "tt_retry", "tt_upload", "tt_poll"}

\* requests.post(url, ...) and requests.put(url, ...) are called without
\* timeout=, and requests then waits for the response without limit
HasTimeout(call) == FALSE

\* the request of the current step is sent and the service never answers
NoResponse ==
  /\ pc \in NetworkCalls
  /\ pc = "tt_init" => memTok[1] # 0
  /\ pc = "tt_poll" => MoreAttempts(req.poll)
  /\ ~HasTimeout(pc)
  /\ pc' = "hung"
  /\ pub' = [pub EXCEPT !.result = pc]
  /\ UNCHANGED <<mainVars, promptVars, inputVars, batch, i, created_videos, started, trace, log, runLog,
                 summary, returned, runVars, fileVars, tokVars, req>>

HangInit == Init /\ distribute_to = "tiktok" /\ config_ok

HangNext == Next \/ NoResponse

HangSpec == HangInit /\ [][HangNext]_vars

\* ------------------------------------------------------------- main.py
\* PromptConfig.from_name(args.config) returns a config
LoadsConfig(name) == name = "cars"

\* the flag is ignored
EffectiveTargetIgnoresFlag(a) == a.distribute_to

\* distribute_to = "none" if args.no_distribute else args.distribute_to
EffectiveTarget(a) == IF a.no_distribute THEN "none" ELSE a.distribute_to

\* def __init__(self, target_width=None, target_height=None, image_source=None)
MediaCollectorInitParams == {"target_width", "target_height", "image_source"}

\* MediaCollector(prompt_config=prompt_config)
MediaCollectorInitPassed == {"prompt_config"}

\* main(), lines 62-87: the arguments are parsed, the target is overridden by
\* --no-distribute, the prompt config is loaded; a failing load exits with 1
Main ==
  /\ pc = "main"
  /\ distribute_to' = EffectiveTarget(args)
  /\ IF args.config = "<none>" \/ LoadsConfig(args.config)
       THEN pc' = "construct" /\ UNCHANGED exit_code
       ELSE pc' = "exited" /\ exit_code' = "1"
  /\ UNCHANGED <<args, promptVars, iterations, image_source, config_ok, budget, batch, i, created_videos, started,
                 trace, log, runLog, summary, returned, runVars, fileVars, tokVars, pubVars>>

\* main(), lines 94-110, with Pipeline.__init__: Pipeline() without the required
\* prompt_config raises TypeError, and so does MediaCollector(prompt_config=...);
\* the exception is not caught in main and the process exits with 1
ConstructPipeline ==
  /\ pc = "construct"
  /\ IF args.config # "<none>" /\ Accepts(MediaCollectorInitParams, MediaCollectorInitPassed)
       THEN pc' = "start" /\ UNCHANGED exit_code
       ELSE pc' = "exited" /\ exit_code' = "1"
  /\ UNCHANGED <<args, promptVars, inputVars, batch, i, created_videos, started, trace, log, runLog,
                 summary, returned, runVars, fileVars, tokVars, pubVars>>

\* the process is started with any accepted command line
MainInit ==
  /\ args \in ArgsInputs
  /\ exit_code = "running"
  /\ prompt_call = NoCall
  /\ prompts = <<>>
  /\ image_source = IMAGE_SOURCE
  /\ iterations = args.count
  /\ distribute_to = args.distribute_to
  /\ config_ok \in BOOLEAN
  /\ budget = max_retries
  /\ batch = 1
  /\ pc = "main"
  /\ i = 0
  /\ created_videos = <<>>
  /\ started = <<>>
  /\ trace = <<>>
  /\ log = <<>>
  /\ runLog = <<>>
  /\ summary = <<>>
  /\ returned = <<>>
  /\ subject = <<>>
  /\ durations = <<>>
  /\ sentences = <<>>
  /\ image_paths = <<>>
  /\ clips = <<>>
  /\ video_path = <<>>
  /\ metadata = <<>>
  /\ audioDir = {}
  /\ imagesDir = {}
  /\ combined = <<>>
  /\ videosDir = {}
  /\ memTok = <<1, 1>>
  /\ envTok = memTok
  /\ tokGen = 1
  /\ req = NoReq
  /\ pub = NoPub

MainNext == Main \/ ConstructPipeline

MainSpec == MainInit /\ [][MainNext]_vars

\* ------------------------------------------------- what the messages say
\* the texts of the logger.error calls of _run_single_iteration
StageMessages == {"Failed to generate idea", "Failed to write script",
                  "Failed to generate audio", "Failed to collect images",
                  "Failed to create video"}

\* only f"Error in iteration {i+1}: {e}" prints the run index; the
\* "Failed to ..." texts are constant
IdentifiesRun(msg) == msg = "Error in iteration"

\* a "Failed to ..." text names its stage; the entry of the exception handler
\* is written with exc_info=True, whose traceback names the stage that raised
IdentifiesStage(msg) == msg \in StageMessages \/ msg = "Error in iteration"

\* ---------------------------------------------------------------- claims
Range(s) == {s[k] : k \in 1..Len(s)}
Last(s) == s[Len(s)]
Occurrences(list, x) == Cardinality({k \in 1..Len(list) : list[k] = x})
RunEnded == pc \in {"loop", "done"} /\ i >= 1 /\ Len(runLog) = i

\* C1: with a valid configuration no exception leaves Pipeline.run, the runs
\* are started in the order 1, 2, ..., every started run ends and is followed by
\* the next one, and the batch returns only after run `iterations`.
C1_BatchSurvivesRunFailures ==
  /\ pc = "raised" => ~config_ok
  /\ started = [k \in 1..i |-> k]
  /\ Len(runLog) = IF pc \in {"start", "loop", "done", "raised"} THEN i ELSE i - 1
  /\ (pc = "loop" /\ i < iterations) => ENABLED NextIteration
  /\ pc = "done" => i = iterations /\ Len(returned) = batch
  /\ pc \notin {"done", "raised"} => ENABLED Next

C1_Witness ==
  /\ pc = "done"
  /\ Len(runLog) = 2
  /\ runLog[1].outcome = "raised"
  /\ runLog[2].outcome = "published"

\* C2: when all stages up to the video succeeded and distribute returned
\* failure, the run's path is the entry appended last, the run ended as
\* publish_failed, and its log has a final warning and no error entry.
C2_PublishFailureStillProduced ==
  (pc \in {"loop", "done"} /\ pub.called /\ pub.result = "fail") =>
    /\ Len(runLog) = i
    /\ runLog[i].outcome = "publish_failed"
    /\ runLog[i].appended
    /\ video_path # <<>>
    /\ created_videos # <<>>
    /\ Last(created_videos) = video_path
    /\ log # <<>>
    /\ Last(log).level = "warning"
    /\ \A k \in 1..Len(log) : log[k].level # "error"

C2_Witness ==
  /\ pc = "loop"
  /\ pub.called
  /\ pub.result = "fail"
  /\ req.mail = 1

\* C3: once the Publisher was invoked for a run (its video was composed), the
\* run's path is in the list, however the publish phase ended.
C3_PathReturnedHoweverPublishEnds ==
  (pc \in {"loop", "done"} /\ pub.called) =>
    /\ video_path # <<>>
    /\ video_path \in Range(created_videos)

\* C4: per publish invocation at most one refresh and two Init requests; a
\* second Init only after a 401 and a successful refresh, carrying the new
\* token; after such a refresh the second Init is sent; a second 401 ends the
\* publish with failure, no upload and no status poll.
C4_OneRefreshOneRetry ==
  /\ Len(req.refresh) <= 1
  /\ Len(req.init) <= 2
  /\ Len(req.initResp) = Len(req.init)
  /\ Len(req.init) = 2 =>
       /\ req.initResp[1] = "401"
       /\ req.refreshResp = <<"ok">>
       /\ req.init[2] = memTok[1]
       /\ req.init[2] # req.init[1]
  /\ (req.refreshResp = <<"ok">> /\ pc # "tt_retry") => Len(req.init) = 2
  /\ (Len(req.initResp) = 2 /\ req.initResp[2] = "401") =>
       /\ pc \in {"loop", "done"}
       /\ pub.result = "fail"
       /\ req.upload = 0
       /\ req.poll = 0

C4_Witness ==
  /\ Len(req.initResp) = 2
  /\ req.initResp[2] = "401"
  /\ Len(req.refresh) = 1

\* C5: the status loop never makes more than `budget` requests; while it runs
\* every answer so far was non-terminal; it ends with success exactly on
\* PUBLISH_COMPLETE, with failure and the supplied reason on FAILED, both right
\* after the non-terminal answers, and with a timeout after exactly `budget`
\* non-terminal answers.
C5_PollLoop ==
  /\ req.poll <= budget
  /\ pub.result = "ok" <=> pub.poll = "complete"
  /\ pc = "tt_poll" => pub.poll = "none" /\ req.poll = req.nonTerminal
  /\ pc # "tt_poll" => pub.poll # "none"
  /\ pub.poll = "complete" =>
       /\ pub.status = "PUBLISH_COMPLETE"
       /\ req.poll = req.nonTerminal + 1
  /\ pub.poll = "failed" =>
       /\ pub.result = "fail"
       /\ pub.status = "FAILED"
       /\ req.poll = req.nonTerminal + 1
       /\ pub.fail_reason # "<missing>" => pub.reason = pub.fail_reason
  /\ pub.poll = "timeout" =>
       /\ pub.result = "fail"
       /\ req.poll = budget
       /\ req.nonTerminal = budget

C5_Witness ==
  /\ budget = 20
  /\ req.poll = 3
  /\ req.nonTerminal = 2
  /\ pub.result = "ok"

DirsEmpty == audioDir = {} /\ imagesDir = {} /\ combined = <<>>

DigitValue(c) == CHOOSE d \in 0..9 : Digits[d + 1] = c

\* path is output/videos/<ddd>_<subject, sanitized, at most 50 characters>.mp4
NameOf(path, index, subj) ==
  LET body == SubSeq(path, 2, Len(path) - 1)
      kept == IF Len(subj) < 50 THEN Len(subj) ELSE 50
  IN /\ Len(path) >= 6
     /\ path[1] = "output/videos/"
     /\ Last(path) = ".mp4"
     /\ Len(body) = 4 + kept
     /\ \A k \in 1..3 : body[k] \in Range(Digits)
     /\ 100 * DigitValue(body[1]) + 10 * DigitValue(body[2]) + DigitValue(body[3]) = index
     /\ body[4] = "_"
     /\ \A k \in 1..kept :
          body[4 + k] = IF subj[k] \in AlnumChars \cup {" ", "-", "_"} THEN subj[k] ELSE "_"

\* C7: the path of every run whose stages all succeeded occurs exactly once in
\* the list, and the path of the run that just ended that way is named by its
\* index, padded to three digits, and its sanitized subject.
C7_SuccessfulRunListedOnce ==
  /\ \A j \in 1..Len(runLog) :
       runLog[j].outcome = "published" => Occurrences(created_videos, runLog[j].path) = 1
  /\ (RunEnded /\ runLog[i].outcome = "published") =>
       /\ runLog[i].path = video_path
       /\ NameOf(video_path, i, subject)

C7_Witness ==
  /\ pc = "done"
  /\ Len(runLog) = 2
  /\ runLog[1].outcome = "published"
  /\ runLog[2].outcome = "published"
  /\ subject = LongSubject
  /\ Len(created_videos) = 2

\* C8: the list never has more entries than runs requested, nor more than
\* runs finished, and the summary and the returned list agree.
C8_AtMostCount ==
  /\ Len(created_videos) <= iterations
  /\ Len(created_videos) <= Len(runLog)
  /\ Len(created_videos) = Cardinality({j \in 1..Len(runLog) : runLog[j].appended})
  /\ pc = "done" =>
       /\ Last(returned) = created_videos
       /\ summary = <<Len(Last(returned)), iterations>>

C8_Witness ==
  /\ pc = "done"
  /\ iterations = 2
  /\ summary = <<1, 2>>
  /\ Len(runLog) = 2
  /\ runLog[1].appended
  /\ ~runLog[2].appended

\* C9: when generate_audio returned no duration the run ends there: the last
\* stage called is the narration, nothing is appended, no video exists, the
\* Publisher is not called; and a batch still ends only after all its runs.
C9_EmptyNarrationAbortsRun ==
  /\ (trace # <<>> /\ Last(trace) = "audio" /\ durations = <<>>) =>
       /\ pc \in {"loop", "done"}
       /\ trace = <<"idea", "script", "audio">>
       /\ Len(runLog) = i
       /\ runLog[i].stage = "audio"
       /\ ~runLog[i].appended
       /\ video_path = <<>>
       /\ ~pub.called
  /\ \A j \in 1..Len(runLog) :
       runLog[j].stage = "audio" => ~runLog[j].appended /\ runLog[j].path = <<>>
  /\ pc = "done" => Len(runLog) = iterations

C9_Witness ==
  /\ pc = "done"
  /\ Len(runLog) = 2
  /\ runLog[1].stage = "audio"
  /\ runLog[1].outcome = "failed"
  /\ runLog[2].outcome = "published"

\* C10: two invocations with count 1 that each produced a video return
\* different paths.
C10_RerunNamesDistinct ==
  (Len(returned) = 2 /\ Len(returned[1]) = 1 /\ Len(returned[2]) = 1) =>
    returned[1][1] # returned[2][1]

\* C11: a run whose idea carries an empty subject, or no subject at all (read
\* as "Unknown"), calls no stage after the idea stage and produces no video.
C11_NoSubjectAbortsRun ==
  (trace # <<>> /\ subject \in {<<>>, Unknown}) =>
    /\ trace = <<"idea">>
    /\ video_path = <<>>

\* C12: the durations and the sentences generate_audio returned have the same
\* length and durations[k] is the duration of sentences[k], also when the
\* synthesis of some sentence failed.
C12_DurationsAlignedWithSentences ==
  /\ Len(durations) = Len(sentences)
  /\ \A k \in 1..Len(durations) : durations[k] = Duration(sentences[k][2])

\* C13: whatever the lengths of the image list and of the durations handed to
\* create_video, the composition is not prevented; the two sequences it
\* composes have the same length, min(len(images), len(durations)), and clip k
\* pairs image k with duration k.
C13_ComposerTrimsToMin ==
  /\ pc = "video" => ENABLED (CreateVideo /\ pc' = "cleanup")
  /\ pc \in {"cleanup", "distribute"} =>
       LET n == Min(Len(image_paths), Len(durations))
       IN /\ Len(TrimmedImages(image_paths, durations)) = n
          /\ Len(TrimmedDurations(image_paths, durations)) = n
          /\ Len(clips) = n
          /\ \A k \in 1..n : clips[k] = <<image_paths[k], durations[k]>>

C13_Witness ==
  /\ pc = "cleanup"
  /\ Len(image_paths) = 1
  /\ Len(durations) = 2
  /\ clips = <<<<image_paths[1], durations[1]>>>>

\* C14: the caption an Init request carries is the one built from the
\* metadata; it has between 1 and 2200 characters, and when the title and the
\* description combined are longer than 2200 characters it is exactly their
\* first 2200 characters.
C14_CaptionBounded ==
  Len(req.init) >= 1 =>
    LET t == Title(metadata)
        d == Description(metadata)
        combination == IF t # <<>> /\ d # <<>> THEN t \o <<"\n", "\n">> \o d ELSE t \o d
    IN /\ req.title = pub.caption
       /\ Len(req.title) >= 1
       /\ Len(req.title) <= MaxCaption
       /\ Len(combination) > MaxCaption =>
            /\ Len(req.title) = MaxCaption
            /\ \A k \in 1..MaxCaption : req.title[k] = combination[k]

C14_Witness ==
  /\ Len(req.init) = 1
  /\ Len(Title(metadata)) = MaxCaption - 2
  /\ Len(Description(metadata)) = 1
  /\ Len(req.title) = MaxCaption
  /\ req.title[MaxCaption] = "\n"

RECURSIVE Decimal(_)
Decimal(ds) == IF ds = <<>> THEN 0
               ELSE 10 * Decimal(SubSeq(ds, 1, Len(ds) - 1)) + DigitValue(Last(ds))

AllowedChars == AlnumChars \cup {" ", "-", "_"}

\* C15: the name of the composed video is fixed by the run index and the
\* subject: the index in decimal, left-padded with zeros to three digits, an
\* underscore, then the first 50 characters of the subject with every
\* character outside alphanumeric, space, hyphen, underscore replaced; that
\* part has at most 50 characters, all of them allowed.
C15_NameFromIndexAndSubject ==
  video_path # <<>> =>
    LET name == SubSeq(video_path, 2, Len(video_path) - 1)
        w == IF i < 1000 THEN 3 ELSE 4
        safe == SubSeq(name, w + 2, Len(name))
    IN /\ video_path[1] = "output/videos/"
       /\ Last(video_path) = ".mp4"
       /\ Len(name) >= w + 1
       /\ \A k \in 1..w : name[k] \in Range(Digits)
       /\ Decimal(SubSeq(name, 1, w)) = i
       /\ name[w + 1] = "_"
       /\ Len(safe) = Min(50, Len(subject))
       /\ \A k \in 1..Len(safe) :
            /\ safe[k] \in AllowedChars
            /\ subject[k] \in AllowedChars => safe[k] = subject[k]
            /\ subject[k] \notin AllowedChars => safe[k] # subject[k]

C15_Witness ==
  /\ pc = "cleanup"
  /\ i = 99
  /\ subject = LongSubject
  /\ Len(video_path) = 56
  /\ SubSeq(video_path, 2, 5) = <<"0", "9", "9", "_">>
  /\ video_path[55] = "x"

\* C16: the access token and the refresh token stored in .env always belong
\* to the same pair: the configured one, or the one a refresh response issued.
C16_StoredPairNeverTorn ==
  \/ envTok[1] <= 1 /\ envTok[2] <= 1
  \/ envTok[1] = envTok[2]

PublishFailedBeforeUpload ==
  /\ pc \in {"loop", "done"}
  /\ pub.result = "fail"
  /\ Len(req.init) = 1
  /\ req.upload = 0
  /\ req.poll = 0

\* C17: a second Init request is made only after a 401 and a successful
\* refresh.  When the first Init fails for another reason no refresh is made,
\* and when the refresh is not possible or fails (no refresh token, transport
\* error, answer without an access token) the first Init stays the only one;
\* in all these cases the publish fails with no upload and no status poll.
C17_SecondInitOnlyAfterRefresh ==
  /\ Len(req.init) >= 2 =>
       /\ req.initResp[1] = "401"
       /\ Len(req.refreshResp) = 1
       /\ req.refreshResp[1] = "ok"
  /\ (Len(req.initResp) >= 1 /\ req.initResp[1] \notin {"401", "ok"}) =>
       /\ req.refresh = <<>>
       /\ PublishFailedBeforeUpload
  /\ (Len(req.initResp) >= 1 /\ req.initResp[1] = "401" /\ memTok[2] = 0) =>
       /\ req.refresh = <<>>
       /\ PublishFailedBeforeUpload
  /\ (Len(req.refreshResp) >= 1 /\ req.refreshResp[1] # "ok") =>
       /\ Len(req.refresh) = 1
       /\ PublishFailedBeforeUpload

C17_Witness ==
  /\ pc = "loop"
  /\ req.initResp = <<"401">>
  /\ req.refreshResp = <<"no_access_token">>
  /\ pub.result = "fail"
  /\ req.upload = 0

\* C18: a publish makes at most one upload request; it carries the whole
\* file as the single chunk announced in the Init request; when the upload
\* fails it is not repeated, no status request is made and the publish fails.
C18_OneUploadNoRetry ==
  /\ req.upload <= 1
  /\ req.upload = 1 =>
       /\ req.total_chunk_count = 1
       /\ req.chunk_size = req.video_size
       /\ req.sent = req.video_size
       /\ req.range = <<0, req.video_size - 1, req.video_size>>
       /\ req.uploadResp # "none"
  /\ req.uploadResp \notin {"none", "ok"} =>
       /\ pc \in {"loop", "done"}
       /\ req.poll = 0
       /\ pub.poll = "none"
       /\ pub.result = "fail"
  /\ req.poll > 0 => req.uploadResp = "ok"

C18_Witness ==
  /\ pc = "loop"
  /\ req.upload = 1
  /\ req.uploadResp = "http_error"
  /\ req.video_size = 2
  /\ req.range = <<0, 1, 2>>
  /\ pub.result = "fail"

\* C19: once a video was composed the cleanup is called exactly once, before
\* the Publisher; a failed removal is logged once as a warning and does not
\* stop the run: the Publisher is called and the run's path is returned.
C19_CleanupOnceNeverFatal ==
  /\ Occurrences(trace, "cleanup") <= 1
  /\ Occurrences(log, CleanupWarning) <= 1
  /\ video_path # <<>> =>
       Occurrences(trace, "cleanup") = IF pc = "cleanup" THEN 0 ELSE 1
  /\ "publish" \in Range(trace) =>
       \E a, b \in 1..Len(trace) : a < b /\ trace[a] = "cleanup" /\ trace[b] = "publish"
  /\ (CleanupWarning \in Range(log) /\ pc # "distribute") => pub.called
  /\ (CleanupWarning \in Range(log) /\ RunEnded) =>
       /\ video_path # <<>>
       /\ video_path \in Range(created_videos)

StageOrder == <<"idea", "script", "audio", "media", "video", "publish">>
StagesCalled == SelectSeq(trace, LAMBDA s : s # "cleanup")
InRun == pc \notin {"start", "loop", "done", "raised"}

\* C20: the stages of a run are called in the order idea, script, narration,
\* media, compose, publish, each at most once; a stage is called only when the
\* result of the one before it is non-empty; a run that failed at a stage has
\* called no later stage; and while a run's stages are called every earlier
\* run has ended.
C20_StagesInOrder ==
  /\ Len(StagesCalled) <= Len(StageOrder)
  /\ \A k \in 1..Len(StagesCalled) : StagesCalled[k] = StageOrder[k]
  /\ ("media" \in Range(trace) /\ "publish" \notin Range(trace)) => durations # <<>>
  /\ ("video" \in Range(trace) /\ "publish" \notin Range(trace)) => image_paths # <<>>
  /\ "publish" \in Range(trace) => video_path # <<>>
  /\ RunEnded =>
       /\ trace # <<>>
       /\ Last(trace) = IF runLog[i].outcome \in {"failed", "raised"}
                          THEN runLog[i].stage ELSE "publish"
  /\ InRun =>
       /\ Len(runLog) = i - 1
       /\ \A j \in 1..(i - 1) : runLog[j].index = j
       /\ Len(StagesCalled) < Len(StageOrder) => pc = StageOrder[Len(StagesCalled) + 1]
                                                  \/ pc \in {"cleanup", "distribute"}
  /\ trace # <<>> => i >= 1 /\ Last(started) = i

C20_Witness ==
  /\ i = 2
  /\ Len(runLog) = 1
  /\ runLog[1].stage = "audio"
  /\ runLog[1].outcome = "failed"
  /\ trace = <<"idea", "script", "audio">>
  /\ pc = "media"

FileOfPath == \E f \in videosDir : <<"output/videos/">> \o f[1] \o <<".mp4">> = video_path

\* C21: an invocation of the mail channel makes at most one delivery attempt
\* and ends by returning success or failure, never by raising; a failed
\* delivery returns failure without a second attempt; a missing video file
\* returns failure without any attempt.
C21_MailAtMostOnce ==
  /\ req.mail <= 1
  /\ (pub.called /\ distribute_to = "email") =>
       /\ pc = "loop"
       /\ pub.result \in {"ok", "fail"}
       /\ Len(runLog) = 1
       /\ runLog[1].outcome = IF pub.result = "ok" THEN "published" ELSE "publish_failed"
       /\ req.mail = IF FileOfPath THEN 1 ELSE 0
       /\ ~FileOfPath => pub.result = "fail"

C21_Witness ==
  /\ pub.called
  /\ distribute_to = "email"
  /\ videosDir = {}
  /\ req.mail = 0
  /\ pub.result = "fail"

\* C22: the process exits with a non-zero code only when the configuration
\* does not load or does not validate; with a configuration that loads and
\* validates it exits with 0.
C22_NonZeroExitOnlyForConfig ==
  exit_code \notin {"running", "0"} =>
    \/ args.config \in {"missing", "broken"}
    \/ ~config_ok

\* C23: a process started without --config constructs the pipeline, runs the
\* batch and exits normally after Pipeline.run returned its list.
C23_LegacyModeRuns ==
  (args.config = "<none>" /\ pc \notin {"main", "construct"}) =>
    /\ exit_code \in {"running", "0"}
    /\ exit_code = "0" => Len(returned) = 1

C25_NoCallBlocksForever ==
  /\ pc # "hung"
  /\ pub.result \in NetworkCalls => pc \in {"loop", "done"}

\* C26: a run that ended without a video has, among the entries logged
\* during it, an error entry that identifies both the run index and the stage
\* that failed.
C26_FailureNamesRunAndStage ==
  (RunEnded /\ video_path = <<>>) =>
    \E k \in 1..Len(log) :
      /\ log[k].level = "error"
      /\ log[k].run = i
      /\ IdentifiesRun(log[k].msg)
      /\ IdentifiesStage(log[k].msg)

\* C27: every path appended to the list of created videos, and every path of
\* a returned list, names a file of the videos directory: neither the cleanup
\* of a run nor the directory resets of later runs remove a produced video.
C27_ProducedVideosKept ==
  LET files == {OutputPath(f[1]) : f \in videosDir}
  IN /\ \A k \in 1..Len(created_videos) : created_videos[k] \in files
     /\ pc = "done" => \A k \in 1..Len(Last(returned)) : Last(returned)[k] \in files

C27_Witness ==
  /\ pc = "done"
  /\ Len(Last(returned)) = 2
  /\ Last(returned)[1] # Last(returned)[2]
  /\ Cardinality(videosDir) = 2
  /\ \A k \in 1..2 : runLog[k].outcome \in {"published", "publish_failed"}

\* C28: for every image strategy collect_media returns at least one and at
\* most the requested number of image paths, or raises (the lists are looked
\* at until the publisher is called); no run ends with the media stage having returned
\* nothing, and a run the media stage ended by
\* raising is followed by the next run.
C28_MediaNeverEmpty ==
  /\ (pc \in {"video", "cleanup", "distribute"}) =>
       /\ Len(image_paths) >= 1
       /\ Len(image_paths) <= Len(durations)
  /\ \A k \in 1..Len(runLog) : ~(runLog[k].stage = "media" /\ runLog[k].outcome = "failed")
  /\ (RunEnded /\ Last(trace) = "media") =>
       /\ runLog[i].outcome = "raised"
       /\ image_paths = <<>>
       /\ pc = "loop" => (i < iterations => ENABLED NextIteration)

C28_Witness ==
  /\ RunEnded
  /\ image_source = "other"
  /\ Last(trace) = "media"
  /\ runLog[i].outcome = "raised"
  /\ imagesDir = {}
  /\ i < iterations

\* C29: with --no-distribute the target handed to the pipeline is "none"
\* whatever --distribute-to says, and the batch is run: the process does not end
\* before a run has produced its video.
C29_NoDistributeStillCreates ==
  (args.no_distribute /\ pc # "main") =>
    /\ distribute_to = "none"
    /\ (args.config \in {"<none>", "cars"} /\ config_ok) => pc # "exited"

\* the templates a call of generate_prompts works with
TemplatesOfCall == IF prompt_call.use_default THEN DEFAULT_CAR_TEMPLATES
                                              ELSE prompt_call.shot_templates

\* C30: for count >= 0 generate_prompts returns min(count, number of
\* templates) entries; entry k has exactly the keys prompt, description and
\* name, and carries the name and the description of template k.
C30_PromptsPerTemplate ==
  (pc = "prompts_returned" /\ prompt_call.count >= 0) =>
    /\ Len(prompts) = Min(prompt_call.count, Len(TemplatesOfCall))
    /\ \A k \in 1..Len(prompts) :
         /\ DOMAIN prompts[k] = {"prompt", "description", "name"}
         /\ prompts[k].name = TemplatesOfCall[k].name
         /\ prompts[k].description = TemplatesOfCall[k].description
         /\ prompts[k].prompt # <<>>

C30_Witness ==
  /\ pc = "prompts_returned"
  /\ prompt_call.count = 1
  /\ prompt_call.subject_name = <<"a", " ", "(", "b", ")">>
  /\ ~prompt_call.use_default
  /\ Len(prompt_call.shot_templates) = 2
  /\ prompts = <<[prompt |-> <<"close-up of ", "a">>, description |-> "Detail shot",
                  name |-> "detail"]>>

\* C31: in a platform publish the Init request comes first, a refresh and a
\* second Init only after a 401 to the first Init; the upload is sent once and
\* only after an Init response with both publish_id and upload_url; status is
\* polled only after the upload succeeded; and the publish returns success
\* exactly when a poll observed PUBLISH_COMPLETE.
C31_InitUploadPollOrder ==
  distribute_to = "tiktok" =>
    /\ Len(req.init) <= 2
    /\ Len(req.refresh) <= 1
    /\ Len(req.refresh) = 1 => Len(req.init) >= 1 /\ req.initResp[1] = "401"
    /\ Len(req.init) = 2 => Len(req.refresh) = 1 /\ req.refreshResp = <<"ok">>
    /\ req.upload <= 1
    /\ (req.upload = 1 \/ req.uploadResp # "none" \/ pc = "tt_upload") =>
         /\ req.init # <<>>
         /\ Last(req.initResp) = "ok"
    /\ (req.poll >= 1 \/ pc = "tt_poll") => req.upload = 1 /\ req.uploadResp = "ok"
    /\ pub.result = "ok" <=> (req.poll >= 1 /\ pub.status = "PUBLISH_COMPLETE")
    /\ pub.result = "ok" => RunEnded

C31_Witness ==
  /\ distribute_to = "tiktok"
  /\ pc = "loop"
  /\ pub.result = "ok"
  /\ req.initResp = <<"401", "ok">>
  /\ Len(req.refresh) = 1
  /\ req.upload = 1
  /\ req.poll = 2
  /\ req.nonTerminal = 1

\* C32: the in-memory and the persisted tokens change only in a refresh step
\* that follows a 401 to the first Init and that succeeds; every other step,
\* a failed refresh included, leaves both pairs as they were.
C32_TokensChangeOnlyOnRefresh ==
  [][(memTok' # memTok \/ envTok' # envTok) =>
       /\ pc = "tt_refresh"
       /\ req.initResp = <<"401">>
       /\ pc' = "tt_retry"]_vars

\* C33: once a refresh was attempted, whether it succeeded or failed, the
\* in-memory token pair equals the persisted pair.
C33_MemoryEqualsPersisted ==
  req.refresh # <<>> => memTok = envTok

\* C34: every Init and status request carries the current in-memory access
\* token and every refresh request the current refresh token, and the in-memory
\* pair is replaced only by a successful refresh, by a newer pair: after a
\* successful refresh no request of this or a later run carries the old tokens.
C34_RefreshedTokenUsed ==
  [][/\ Len(req'.init) > Len(req.init) => Last(req'.init) = memTok[1]
     /\ req'.poll > req.poll => req'.pollTok = memTok[1]
     /\ Len(req'.refresh) > Len(req.refresh) => Last(req'.refresh) = memTok[2]
     /\ memTok' = memTok \/ Len(req'.refresh) > Len(req.refresh)
     /\ memTok' # memTok =>
          /\ pc' = "tt_retry"
          /\ memTok'[1] > memTok[1]
          /\ memTok'[2] > memTok[2]]_vars

C34_Witness ==
  /\ i = 2
  /\ req.init = <<2, 3>>
  /\ req.refresh = <<2>>
  /\ memTok = <<3, 3>>
  /\ req.poll >= 1
  /\ req.pollTok = 3

\* C35: a status request that raised, or whose answer has no "data", is the
\* last one of its publish: polling has ended with failure, whatever is left
\* of the attempt budget.
C35_PollErrorEndsPolling ==
  req.pollFailed =>
    /\ pc \in {"loop", "done"}
    /\ pub.result = "fail"
    /\ pub.poll \in {"no_data", "error"}
    /\ req.poll = req.nonTerminal + 1
    /\ ~ENABLED CheckTiktokStatus
    /\ runLog[i].outcome = "publish_failed"

C35_Witness ==
  /\ req.pollFailed
  /\ pub.poll = "error"
  /\ req.poll = 2
  /\ budget >= 3

\* C36: when create_video is invoked in a run, every image path handed to it
\* names a file written during that run and the combined audio it reads was
\* written during that run, also when the run before it ended without cleanup.
C36_ComposerReadsThisRun ==
  pc = "video" =>
    /\ image_paths # <<>>
    /\ \A k \in 1..Len(image_paths) : image_paths[k][1] = ThisRun
    /\ imagesDir = {ThisRun}
    /\ combined = ThisRun

C36_Witness ==
  /\ pc = "video"
  /\ i = 2
  /\ runLog[1].outcome = "raised"
  /\ runLog[1].stage = "media"
  /\ combined = <<1, 2>>
  /\ audioDir = {<<1, 2>>}
  /\ image_paths[1][1] = <<1, 2>>

\* C37: the video a run writes has a name no earlier run of the batch used,
\* whatever the two subjects and also for indexes above 999: the earlier video
\* is still in the videos directory, written by its own run, and the two paths
\* differ.
C37_BatchNamesDistinct ==
  /\ Cardinality({f[1] : f \in videosDir}) = Cardinality(videosDir)
  /\ (video_path # <<>> /\ created_videos # <<>>) =>
       /\ video_path # created_videos[1]
       /\ Cardinality(videosDir) = 2
       /\ \E f \in videosDir : OutputPath(f[1]) = created_videos[1] /\ f[2] # ThisRun
       /\ \E f \in videosDir : OutputPath(f[1]) = video_path /\ f[2] = ThisRun

C37_Witness ==
  /\ pc = "cleanup"
  /\ i = MaxIndex
  /\ subject = <<"x">>
  /\ Len(runLog) >= 100
  /\ runLog[100].outcome = "published"
  /\ created_videos = <<OutputPath(<<"1", "0", "0", "_", "0", "x">>)>>
  /\ Cardinality(videosDir) = 2

\* C38: with a prompt configuration that loads and validates, the Pipeline
\* is constructed: the process goes on to Pipeline.run instead of ending in the
\* constructor.
C38_PipelineConstructs ==
  (args.config = "cars" /\ config_ok /\ pc \notin {"main", "construct"}) =>
    /\ pc # "exited"
    /\ exit_code = "running"

FallbackOrder == <<"flux", "pexels", "duckduckgo">>

\* C39: for an unrecognized image source the strategies are called in the
\* order generative, stock-photo, web-search, each only after the one before it
\* raised; the first that returns images (at least one) gives the result of
\* collect_media, and collect_media raises only when all three raised.
C39_FallbackInOrder ==
  (image_source = "other" /\ req.tried # <<>>) =>
    LET t == req.tried
        last == req.tried[Len(req.tried)]
    IN /\ Len(t) <= Len(FallbackOrder)
       /\ \A k \in 1..Len(t) : t[k].strategy = FallbackOrder[k]
       /\ \A k \in 1..(Len(t) - 1) : t[k].raised
       /\ ~last.raised =>
            /\ last.count >= 1
            /\ Len(image_paths) = last.count
            /\ pc = "video"
       /\ last.raised =>
            /\ Len(t) = Len(FallbackOrder)
            /\ image_paths = <<>>
            /\ runLog[i].outcome = "raised"

C39_Witness ==
  /\ image_source = "other"
  /\ Len(req.tried) = Len(FallbackOrder)
  /\ req.tried[1].raised
  /\ req.tried[2].raised
  /\ ~req.tried[3].raised
  /\ Len(image_paths) = req.tried[3].count
  /\ pc = "video"

\* C40: for a video file of N bytes every Init request declares video size N,
\* chunk size N and one chunk, and the upload sends N bytes in one request
\* whose range is 0-(N-1)/N: the size declared equals the size uploaded.
C40_DeclaredSizeIsUploadedSize ==
  /\ req.init # <<>> =>
       /\ req.video_size = pub.file_size
       /\ req.chunk_size = pub.file_size
       /\ req.total_chunk_count = 1
  /\ req.upload <= 1
  /\ req.upload = 1 =>
       /\ req.init # <<>>
       /\ req.sent = pub.file_size
       /\ req.range = <<0, pub.file_size - 1, pub.file_size>>
       /\ req.sent = req.video_size

C40_Witness ==
  /\ pub.file_size = MaxSize
  /\ req.upload = 1
  /\ req.uploadResp = "ok"
  /\ req.video_size = MaxSize
  /\ req.chunk_size = MaxSize
  /\ req.total_chunk_count = 1
  /\ req.sent = MaxSize
  /\ req.range = <<0, MaxSize - 1, MaxSize>>

====
